---- MODULE Spec2Model ----
(***************************************************************************)
(* Model of the SRP-6a authentication service (AuthService) and of its two *)
(* stores: the auth_users table and the Redis key space with its three     *)
(* prefixes auth:srp:, auth:refresh: and auth:blacklist:.                  *)
(*                                                                         *)
(* Every request handler is a sequence of steps, one per awaited store     *)
(* command: a step is the effect of that command followed by the           *)
(* synchronous code up to the next store command.  Steps of different      *)
(* requests interleave freely, as the awaits of concurrent requests do.    *)
(***************************************************************************)
EXTENDS Integers, FiniteSets, Sequences, TLC

(***************************************************************************)
(* Bounds of the model.                                                    *)
(***************************************************************************)
MaxSessions == 2     \* handshake sessions ever created, where handshakes are studied
MaxLogins == 1       \* handshake sessions ever created, where tokens are studied
TickStep == 150      \* seconds the clock advances in one Tick
MaxTime == 300       \* the clock stops here
MaxTokenTime == 150  \* the clock stops here where tokens are studied
MaxPasses == 2       \* reads of one handshake session, where a failed delete leaves it
MaxCallers == 3      \* calls of the web store that can be pending together
MaxLen == 3          \* characters of a lifetime setting, where every string is tried
MaxRoomCalls == 2    \* calls of the room service that can be in flight together
MaxRoomOps == 4      \* calls of the room service ever made

(***************************************************************************)
(* Program constants and configuration.                                    *)
(***************************************************************************)
SRP_SESSION_TTL == 300

\* env.JWT_REFRESH_EXPIRES_IN and env.JWT_ACCESS_EXPIRES_IN: a string is
\* the sequence of its characters.  They are settings of the deployment
\* (the defaults are '7d' and '15m'); the model runs with '5m' and '150s',
\* so that tokens expire within MaxTime.
JWT_REFRESH_EXPIRES_IN == <<"5", "m">>
JWT_ACCESS_EXPIRES_IN == <<"1", "5", "0", "s">>

\* the characters \d and [smhd] of the pattern match
DigitChars == {"0", "1", "2", "3", "4", "5", "6", "7", "8", "9"}
UnitChars == {"s", "m", "h", "d"}

digitOf(c) ==
    CASE c = "0" -> 0 [] c = "1" -> 1 [] c = "2" -> 2 [] c = "3" -> 3 [] c = "4" -> 4
      [] c = "5" -> 5 [] c = "6" -> 6 [] c = "7" -> 7 [] c = "8" -> 8 [] c = "9" -> 9

\* Number.parseInt(num, 10) of a string of decimal digits
RECURSIVE parseInt(_)
parseInt(num) ==
    IF Len(num) = 0 THEN 0
    ELSE parseInt(SubSeq(num, 1, Len(num) - 1)) * 10 + digitOf(num[Len(num)])

\* duration.match(/^(\d+)([smhd])$/) is not null
matchDuration(duration) ==
    /\ Len(duration) >= 2
    /\ duration[Len(duration)] \in UnitChars
    /\ \A i \in 1..(Len(duration) - 1) : duration[i] \in DigitChars

\* a durationToSeconds that counts an hour as sixty seconds
durationToSeconds_ShortHour(duration) ==
    IF ~matchDuration(duration)
    THEN 7 * 24 * 60 * 60
    ELSE LET unit == duration[Len(duration)]
             value == parseInt(SubSeq(duration, 1, Len(duration) - 1))
         IN  CASE unit = "s" -> value
               [] unit = "m" -> value * 60
               [] unit = "h" -> value * 60
               [] unit = "d" -> value * 24 * 60 * 60

durationToSeconds(duration) ==
    IF ~matchDuration(duration)
    THEN 7 * 24 * 60 * 60
    ELSE LET unit == duration[Len(duration)]
             value == parseInt(SubSeq(duration, 1, Len(duration) - 1))
         IN  CASE unit = "s" -> value
               [] unit = "m" -> value * 60
               [] unit = "h" -> value * 60 * 60
               [] unit = "d" -> value * 24 * 60 * 60

\* other values JWT_REFRESH_EXPIRES_IN can be given: one per unit, and
\* strings the pattern of durationToSeconds does not match
Durations ==
    {<<"5", "m">>, <<"4", "5", "0", "s">>, <<"1", "h">>, <<"2", "d">>, <<"1", "w">>,
     <<"9", "0">>}

\* every string of at most MaxLen characters over digits, the four units,
\* and characters the pattern does not match
DurationChars == {"0", "1", "9", "s", "m", "h", "d", "w", "M", "-", " "}
DurationStrings == UNION {[1..n -> DurationChars] : n \in 0..MaxLen}

\* the requests that can be in flight together
Procs == {1, 2}
Sids == 1..(MaxSessions + MaxLogins)

VARIABLES
    now,        \* the clock, in seconds
    db,         \* rows of auth_users
    srp,        \* Redis keys auth:srp:<sessionId>
    refresh,    \* Redis keys auth:refresh:<userId>
    blacklist,  \* Redis keys auth:blacklist:<token>
    nextSid,    \* number of session ids drawn so far
    handshake,  \* history: what loginStep1 answered for each session id, and its use
    issued,     \* history: the refresh tokens returned to clients so far
    rotated,    \* history: the tokens a successful refreshTokens call has superseded
    invalid,    \* history: per user, what logout and the mismatch path have invalidated
    proc,       \* the requests in flight
    ret,        \* the response the last step sent, if it completed a request
    env,        \* the validated environment the service was constructed with
    web,        \* the auth store of the web client and its localStorage
    rooms       \* the Redis keys of a room, and the calls of the room service

vars == <<now, db, srp, refresh, blacklist, nextSid, handshake, issued, rotated, invalid,
          proc, ret, env, web, rooms>>

accessTokenExpiry == durationToSeconds(env.JWT_ACCESS_EXPIRES_IN)
refreshTokenExpiry == durationToSeconds(env.JWT_REFRESH_EXPIRES_IN)

(***************************************************************************)
(* Values.                                                                 *)
(***************************************************************************)
\* the absent token: what redis.get gives for a missing key (null) and what
\* logout gets when no refreshToken is supplied (undefined)
NoToken == [sub |-> "", username |-> "", type |-> "none", iat |-> 0, exp |-> 0]

\* String.prototype.toLowerCase on the usernames of the model
toLowerCase(s) == IF s = "Alice" THEN "alice" ELSE IF s = "Bob" THEN "bob" ELSE s

NameInputs == {"Alice", "alice", "bob"}
Usernames == {toLowerCase(n) : n \in NameInputs}
\* the usernames register is called with
RegisterNames == NameInputs \cup {"Bob"}

\* auth_users.id: uuid().defaultRandom(), one value per row
uuid(username) == IF username = "alice" THEN "uuid-a" ELSE "uuid-b"

UserIds == {uuid(u) : u \in Usernames}

(***************************************************************************)
(* SRP-6a over a small group that stands for the 2048-bit one.             *)
(***************************************************************************)
SRPParameters == [N |-> 23, g |-> 5]

\* salt, verifier, A and M1 travel as strings: a number of the model is the
\* hexadecimal string of that number, NotHex a string that is not
\* hexadecimal, for which BigInt(`0x${s}`) throws a SyntaxError
NotHex == -1
BigIntThrows(s) == s = NotHex

Passwords == {1, 2}
\* the password each user registered with
passwordOf(username) == IF toLowerCase(username) = "alice" THEN 1 ELSE 2
Salts == {4}
ClientEphemerals == {3}
ServerEphemerals == {2}

RECURSIVE ModPow(_, _, _)
ModPow(b, e, m) ==
    IF e = 0 THEN 1 % m
    ELSE LET h == ModPow(b, e \div 2, m)
         IN  IF e % 2 = 0 THEN (h * h) % m ELSE (((h * h) % m) * b) % m

IdentityNum(I) == IF I = "alice" THEN 1 ELSE 2

\* x = H(s | H(I : P))
computeX(I, s, P) == ((3 * s + IdentityNum(I) + 5 * P) % (SRPParameters.N - 2)) + 1
\* v = g^x
computeVerifier(x) == ModPow(SRPParameters.g, x, SRPParameters.N)
\* k = H(N | g)
computeK == 3
\* u = H(A | B)
computeU(A, B) == ((7 * A + B) % 5) + 1
\* B = k v + g^b
computeServerPublicValue(v, b) ==
    (computeK * v + ModPow(SRPParameters.g, b, SRPParameters.N)) % SRPParameters.N
\* S = (A v^u)^b
computeServerSessionKey(A, v, u, b) ==
    ModPow((A * ModPow(v, u, SRPParameters.N)) % SRPParameters.N, b, SRPParameters.N)
\* A = g^a
computeClientPublicValue(a) == ModPow(SRPParameters.g, a, SRPParameters.N)
\* S = (B - k g^x)^(a + u x)
computeClientSessionKey(B, x, u, a) ==
    ModPow((B + SRPParameters.N * SRPParameters.N
              - computeK * ModPow(SRPParameters.g, x, SRPParameters.N)) % SRPParameters.N,
           a + u * x, SRPParameters.N)
\* M1 = H(A | B | S)
computeClientEvidence(A, B, S) == (A * SRPParameters.N + B) * SRPParameters.N + S
\* M2 = H(A | M1 | S)
computeServerEvidence(A, M1, S) == (M1 * SRPParameters.N + S) * SRPParameters.N + A + 1

\* generateSRPCredentials: what the client sends at registration
generateSRPCredentials(username, password, salt) ==
    [salt |-> salt, verifier |-> computeVerifier(computeX(toLowerCase(username), salt, password))]

\* startSRPLogin and completeSRPLogin: what a conformant client sends to
\* loginStep2 after loginStep1 answered salt and B
completeSRPLogin(username, password, salt, B, a) ==
    LET A == computeClientPublicValue(a)
        x == computeX(toLowerCase(username), salt, password)
        S == computeClientSessionKey(B, x, computeU(A, B), a)
    IN  [A |-> A, M1 |-> computeClientEvidence(A, B, S)]

\* verifyServer of completeSRPLogin: the client's check of the server proof
verifyServer(username, password, salt, B, a, M2) ==
    LET A == computeClientPublicValue(a)
        x == computeX(toLowerCase(username), salt, password)
        S == computeClientSessionKey(B, x, computeU(A, B), a)
    IN  M2 = computeServerEvidence(A, computeClientEvidence(A, B, S), S)

\* SRPServerSession.step1
srpStep1(I, s, v, b) == [I |-> I, s |-> s, v |-> v, b |-> b, B |-> computeServerPublicValue(v, b)]

\* SRPServerSessionStep1.step2: the server's M1, and whether step2 throws
srpExpectedM1(st, A) ==
    computeClientEvidence(A, st.B, computeServerSessionKey(A, st.v, computeU(A, st.B), st.b))
\* a step2 that checks A and accepts every proof
srpStep2Throws_AnyProof(st, A, M1) == A % SRPParameters.N = 0
\* a step2 without the check of A
srpStep2Throws_NoZeroCheck(st, A, M1) == M1 # srpExpectedM1(st, A)
srpStep2Throws(st, A, M1) == A % SRPParameters.N = 0 \/ M1 # srpExpectedM1(st, A)
srpStep2(st, A, M1) ==
    computeServerEvidence(A, M1, computeServerSessionKey(A, st.v, computeU(A, st.B), st.b))

(***************************************************************************)
(* The stores.  A Redis key space is a set of entries [key, val, exp]; an  *)
(* entry whose TTL has run out is gone.                                    *)
(***************************************************************************)
redisExists(store, key) == \E e \in store : e.key = key /\ now < e.exp
redisGet(store, key, null) ==
    IF redisExists(store, key) THEN (CHOOSE e \in store : e.key = key /\ now < e.exp).val ELSE null
redisSetex(store, key, ttl, val) ==
    {e \in store : e.key # key} \cup {[key |-> key, val |-> val, exp |-> now + ttl]}
\* a del that removes every key
redisDel_Flush(store, key) == {}
redisDel(store, key) == {e \in store : e.key # key}
redisExpire(store, t) == {e \in store : t < e.exp}

\* a select without its where clause
selectUser_AnyRow(name) == db

\* db.select().from(authUsers).where(eq(authUsers.username, name)).limit(1)
selectUser(name) == {r \in db : r.username = name}

\* what JSON.parse of a missing session would be read as
NoSession == [username |-> "", serverStep1State |-> srpStep1("", 0, 0, 0), createdAt |-> 0]

(***************************************************************************)
(* Tokens.  A signed token is its claims: jwtService.sign adds iat and exp *)
(* to the payload, and nothing else distinguishes two tokens.              *)
(***************************************************************************)
jwtSign(payload, expiresIn) ==
    [sub |-> payload.sub, username |-> payload.username, type |-> payload.type,
     iat |-> now, exp |-> now + expiresIn]

\* jwtService.verify: signed by this server and not expired
jwtVerify(token) ==
    /\ [token EXCEPT !.type = "refresh", !.exp = token.iat + refreshTokenExpiry] \in issued
    /\ token.exp = token.iat + (IF token.type = "refresh" THEN refreshTokenExpiry ELSE accessTokenExpiry)
    /\ token.type \in {"access", "refresh"}
    /\ now < token.exp

\* the access token signed together with a refresh token
accessTokenOf(rt) == [rt EXCEPT !.type = "access", !.exp = rt.iat + accessTokenExpiry]

\* AuthenticatedUser, and the null of validateToken
NoUser == [id |-> "", username |-> ""]

\* a validateToken that accepts a token of any type
validateToken_AnyType(token) ==
    IF ~jwtVerify(token) THEN NoUser
    ELSE [id |-> token.sub, username |-> token.username]

\* a validateToken that does not look at the expiry
validateToken_IgnoreExpiry(token) ==
    IF token.type # "access" \/ ~\E r \in issued : token = accessTokenOf(r) THEN NoUser
    ELSE [id |-> token.sub, username |-> token.username]

\* a validateToken that asks for a stored refresh record of the subject
validateToken_Session(token) ==
    IF ~jwtVerify(token) \/ token.type # "access" \/ ~redisExists(refresh, token.sub)
    THEN NoUser
    ELSE [id |-> token.sub, username |-> token.username]

\* AuthService.validateToken: null when verify throws or the type is not access
validateToken(token) ==
    IF ~jwtVerify(token) THEN NoUser
    ELSE IF token.type # "access" THEN NoUser
    ELSE [id |-> token.sub, username |-> token.username]

\* passport-jwt verifies the bearer token (ignoreExpiration: false), then
\* JwtStrategy.validate checks the type: the message of the rejection, or "ok"
jwtStrategyValidate(token) ==
    IF ~jwtVerify(token) THEN "Unauthorized"
    ELSE IF token.type # "access" THEN "Invalid token type"
    ELSE "ok"

(***************************************************************************)
(* Requests.                                                               *)
(***************************************************************************)
\* history of a session id: whether loginStep1 created it, how many
\* loginStep2 calls found its session, and whether one of them has returned
NoHandshake ==
    [use |-> "none", passed |-> 0, username |-> "", salt |-> 0, B |-> 0, createdAt |-> 0]

\* history of a user: dead, once the mismatch path of refreshTokens has
\* returned; out, once logout has deleted the record; before, the tokens
\* held by clients when logout returned.  A successful loginStep2 resets it.
Valid == [dead |-> FALSE, out |-> FALSE, before |-> {}]

Idle ==
    [op |-> "none", pc |-> "idle", res |-> "none",
     username |-> "", salt |-> 0,
     sid |-> 0, A |-> 0, M1 |-> 0, M2 |-> 0, session |-> NoSession,
     uid |-> "", tok |-> NoToken, out |-> NoToken, old |-> NoToken, seen |-> NoToken,
     at |-> 0, first |-> FALSE, late |-> FALSE, dead |-> FALSE, stale |-> FALSE,
     fault |-> FALSE, turnstileValid |-> TRUE, selected |-> FALSE, taken |-> FALSE,
     again |-> FALSE, revoked |-> FALSE]

\* a new request takes the first free slot
Ready(p) == proc[p].op = "none" /\ \A q \in Procs : q < p => proc[q].op # "none"

\* the request of p goes on to its next store command
Continue(p, rec) ==
    /\ proc' = [proc EXCEPT ![p] = rec] /\ ret' = Idle
    /\ env' = env /\ web' = web /\ rooms' = rooms
\* the request of p ends: rec is the request with its result
Return(p, rec) ==
    /\ proc' = [proc EXCEPT ![p] = Idle] /\ ret' = [rec EXCEPT !.pc = "done"]
    /\ env' = env /\ web' = web /\ rooms' = rooms

\* the calls of the web store: a call that is pending holds one of the
\* slots; awaits is the slot of the call whose promise it waits for, log
\* the outcomes of the requests it has made, token whether an access token
\* was stored when it was made
Callers == 1..MaxCallers
NoCall == [op |-> "none", pc |-> "idle", awaits |-> 0, log |-> <<>>, by |-> 0, token |-> FALSE]

\* useAuthStore as defineStore sets it up, over an empty localStorage
WebInit ==
    [user |-> "null", loading |-> FALSE, fetchUserPromise |-> 0,
     auth_token |-> "", auth_refresh_token |-> "",
     calls |-> [c \in Callers |-> NoCall], settled |-> NoCall]

\* the users and guests of the rooms, by odId
RoomUsers == {"u1", "u2", "u3"}
\* the game modes rooms are created with
GameModes == {"2v2", "3v3"}

\* maxPlayers of createRoom
maxPlayersOf(gameMode) == IF gameMode = "2v2" THEN 2 ELSE IF gameMode = "3v3" THEN 3 ELSE 5

\* the null of redis.get for room:<code>, and the RoomState of a call that
\* has not read it
NoRoom == [ownerId |-> "", gameMode |-> "", maxPlayers |-> 0, status |-> "none"]
NoState == [room |-> NoRoom, members |-> <<>>]

\* a call of the room service: state is the RoomState it read, todo the
\* members resetRoom has still to remove, by the operation that called
\* leaveRoom
RoomCallers == 1..MaxRoomCalls
NoRoomCall ==
    [op |-> "none", pc |-> "idle", odId |-> "", target |-> "", state |-> NoState,
     todo |-> <<>>, by |-> "", res |-> "none"]

\* the keys of one room code over an empty Redis: room:<code>, the hash
\* room:<code>:members in the order of its fields, the list
\* room:<code>:chat, and the set room:all; made counts the calls made
RoomInit ==
    [room |-> NoRoom, members |-> <<>>, chat |-> <<>>, allRooms |-> {}, made |-> 0,
     calls |-> [c \in RoomCallers |-> NoRoomCall], returned |-> NoRoomCall]

aliceRow ==
    [id |-> uuid("alice"), username |-> "alice", srpSalt |-> 4,
     srpVerifier |-> generateSRPCredentials("alice", passwordOf("alice"), 4).verifier]

\* the service starts on a database that holds alice and on an empty Redis
InitStores ==
    /\ now = 0
    /\ db = {aliceRow}
    /\ srp = {}
    /\ refresh = {}
    /\ blacklist = {}
    /\ nextSid = 0
    /\ handshake = [s \in Sids |-> NoHandshake]
    /\ issued = {}
    /\ rotated = {}
    /\ invalid = [u \in UserIds |-> Valid]
    /\ proc = [p \in Procs |-> Idle]
    /\ ret = Idle
    /\ web = WebInit
    /\ rooms = RoomInit

\* the service constructed with the environment of the deployment
Init ==
    /\ InitStores
    /\ env = [JWT_ACCESS_EXPIRES_IN |-> JWT_ACCESS_EXPIRES_IN,
              JWT_REFRESH_EXPIRES_IN |-> JWT_REFRESH_EXPIRES_IN]

\* the row of a second registered user
bobRow ==
    [id |-> uuid("bob"), username |-> "bob", srpSalt |-> 4,
     srpVerifier |-> generateSRPCredentials("bob", passwordOf("bob"), 4).verifier]

\* the service on a database that holds alice and bob
InitUsers ==
    /\ now = 0
    /\ db = {aliceRow, bobRow}
    /\ srp = {}
    /\ refresh = {}
    /\ blacklist = {}
    /\ nextSid = 0
    /\ handshake = [s \in Sids |-> NoHandshake]
    /\ issued = {}
    /\ rotated = {}
    /\ invalid = [u \in UserIds |-> Valid]
    /\ proc = [p \in Procs |-> Idle]
    /\ ret = Idle
    /\ web = WebInit
    /\ rooms = RoomInit
    /\ env = [JWT_ACCESS_EXPIRES_IN |-> JWT_ACCESS_EXPIRES_IN,
              JWT_REFRESH_EXPIRES_IN |-> JWT_REFRESH_EXPIRES_IN]

\* the service constructed with any of the refresh lifetimes
InitConfig ==
    /\ InitStores
    /\ \E d \in Durations :
          env = [JWT_ACCESS_EXPIRES_IN |-> JWT_ACCESS_EXPIRES_IN,
                 JWT_REFRESH_EXPIRES_IN |-> d]

\* the service constructed with one of the two lifetimes set to any string
InitDurations ==
    /\ InitStores
    /\ \E d \in DurationStrings :
          \/ env = [JWT_ACCESS_EXPIRES_IN |-> d,
                    JWT_REFRESH_EXPIRES_IN |-> JWT_REFRESH_EXPIRES_IN]
          \/ env = [JWT_ACCESS_EXPIRES_IN |-> JWT_ACCESS_EXPIRES_IN,
                    JWT_REFRESH_EXPIRES_IN |-> d]

\* time passes; Redis drops the keys whose TTL has run out
Tick ==
    /\ now + TickStep <= MaxTime
    /\ now' = now + TickStep
    /\ srp' = redisExpire(srp, now')
    /\ refresh' = redisExpire(refresh, now')
    /\ blacklist' = redisExpire(blacklist, now')
    /\ ret' = Idle
    /\ UNCHANGED <<db, nextSid, handshake, issued, rotated, invalid, proc, env, web, rooms>>

(***************************************************************************)
(* register                                                                *)
(***************************************************************************)
\* the request of a register call; taken records whether the username had
\* a row when the call was made
registerRequest(name, salt, verifier, turnstileValid) ==
    [Idle EXCEPT !.op = "register", !.username = name, !.salt = salt, !.M1 = verifier,
                 !.turnstileValid = turnstileValid,
                 !.taken = (selectUser(toLowerCase(name)) # {})]

\* a register that looks the username up before it checks the CAPTCHA
RegisterSelect_SelectFirst(p, name, salt, verifier, turnstileValid) ==
    /\ Ready(p)
    /\ LET req == [registerRequest(name, salt, verifier, turnstileValid)
                      EXCEPT !.selected = TRUE]
       IN  IF selectUser(toLowerCase(name)) # {}
           THEN Return(p, [req EXCEPT !.res = "Username already exists"])
           ELSE IF ~turnstileValid
           THEN Return(p, [req EXCEPT !.res = "CAPTCHA verification failed"])
           ELSE Continue(p, [req EXCEPT !.pc = "insert"])
    /\ UNCHANGED <<now, db, srp, refresh, blacklist, nextSid, handshake, issued, rotated, invalid>>

\* a register that does not look for an existing row
RegisterSelect_NoCheck(p, name, salt, verifier, turnstileValid) ==
    /\ Ready(p)
    /\ LET req == registerRequest(name, salt, verifier, turnstileValid)
       IN  IF ~turnstileValid
           THEN Return(p, [req EXCEPT !.res = "CAPTCHA verification failed"])
           ELSE Continue(p, [req EXCEPT !.pc = "insert"])
    /\ UNCHANGED <<now, db, srp, refresh, blacklist, nextSid, handshake, issued, rotated, invalid>>

\* turnstile check, then the select of the existing row
RegisterSelect(p, name, salt, verifier, turnstileValid) ==
    /\ Ready(p)
    /\ LET req == registerRequest(name, salt, verifier, turnstileValid)
       IN  IF ~turnstileValid
           THEN Return(p, [req EXCEPT !.res = "CAPTCHA verification failed"])
           ELSE IF selectUser(toLowerCase(name)) # {}
           THEN Return(p, [req EXCEPT !.res = "Username already exists", !.selected = TRUE])
           ELSE Continue(p, [req EXCEPT !.pc = "insert", !.selected = TRUE])
    /\ UNCHANGED <<now, db, srp, refresh, blacklist, nextSid, handshake, issued, rotated, invalid>>

\* an insert into a table without the unique constraint
RegisterInsert_NoConstraint(p) ==
    /\ proc[p].op = "register" /\ proc[p].pc = "insert"
    /\ db' = db \cup {[id |-> uuid(toLowerCase(proc[p].username)),
                        username |-> toLowerCase(proc[p].username),
                        srpSalt |-> proc[p].salt, srpVerifier |-> proc[p].M1]}
    /\ Return(p, [proc[p] EXCEPT !.res = "ok"])
    /\ UNCHANGED <<now, srp, refresh, blacklist, nextSid, handshake, issued, rotated, invalid>>

\* a register that stores the username as it was typed
RegisterInsert_AsTyped(p) ==
    /\ proc[p].op = "register" /\ proc[p].pc = "insert"
    /\ IF selectUser(proc[p].username) # {}
       THEN /\ Return(p, [proc[p] EXCEPT !.res = "QueryFailedError"])
            /\ db' = db
       ELSE /\ db' = db \cup {[id |-> uuid(toLowerCase(proc[p].username)),
                               username |-> proc[p].username,
                               srpSalt |-> proc[p].salt, srpVerifier |-> proc[p].M1]}
            /\ Return(p, [proc[p] EXCEPT !.res = "ok"])
    /\ UNCHANGED <<now, srp, refresh, blacklist, nextSid, handshake, issued, rotated, invalid>>

\* the insert; auth_users.username is unique, so a second row is refused
RegisterInsert(p) ==
    /\ proc[p].op = "register" /\ proc[p].pc = "insert"
    /\ LET name == toLowerCase(proc[p].username)
       IN  IF selectUser(name) # {}
           THEN /\ Return(p, [proc[p] EXCEPT !.res = "QueryFailedError"])
                /\ db' = db
           ELSE /\ db' = db \cup {[id |-> uuid(name), username |-> name,
                                   srpSalt |-> proc[p].salt, srpVerifier |-> proc[p].M1]}
                /\ Return(p, [proc[p] EXCEPT !.res = "ok"])
    /\ UNCHANGED <<now, srp, refresh, blacklist, nextSid, handshake, issued, rotated, invalid>>

(***************************************************************************)
(* loginStep1                                                              *)
(***************************************************************************)
\* a session stored with twice the TTL
storeSession_Longer(sessionId, sessionData) ==
    redisSetex(srp, sessionId, 2 * SRP_SESSION_TTL, sessionData)

\* redis.setex of the handshake session
storeSession(sessionId, sessionData) ==
    redisSetex(srp, sessionId, SRP_SESSION_TTL, sessionData)

LoginStep1(p, name, turnstileValid, b) ==
    /\ Ready(p)
    /\ LET users == selectUser(toLowerCase(name))
           req == [Idle EXCEPT !.op = "loginStep1", !.username = name,
                               !.turnstileValid = turnstileValid,
                               !.selected = turnstileValid]
       IN  IF ~turnstileValid
           THEN /\ Return(p, [req EXCEPT !.res = "CAPTCHA verification failed"])
                /\ UNCHANGED <<srp, nextSid, handshake>>
           ELSE IF users = {}
           THEN /\ Return(p, [req EXCEPT !.res = "Invalid credentials"])
                /\ UNCHANGED <<srp, nextSid, handshake>>
           ELSE IF \E r \in users : BigIntThrows(r.srpSalt) \/ BigIntThrows(r.srpVerifier)
           THEN /\ Return(p, [req EXCEPT !.res = "SyntaxError"])
                /\ UNCHANGED <<srp, nextSid, handshake>>
           ELSE LET user == CHOOSE r \in users : TRUE
                    serverStep1 == srpStep1(toLowerCase(name), user.srpSalt, user.srpVerifier, b)
                    sessionId == nextSid + 1
                    sessionData == [username |-> user.username,
                                    serverStep1State |-> serverStep1,
                                    createdAt |-> now]
                IN  /\ nextSid' = sessionId
                    /\ srp' = storeSession(sessionId, sessionData)
                    /\ handshake' = [handshake EXCEPT ![sessionId] =
                          [use |-> "issued", passed |-> 0, username |-> user.username,
                           salt |-> user.srpSalt, B |-> serverStep1.B, createdAt |-> now]]
                    /\ Return(p, [req EXCEPT !.res = "ok", !.sid = sessionId,
                                             !.salt = user.srpSalt])
    /\ UNCHANGED <<now, db, refresh, blacklist, issued, rotated, invalid>>

(***************************************************************************)
(* generateTokens: both tokens are signed, then the refresh token is       *)
(* stored under auth:refresh:<userId>.                                     *)
(***************************************************************************)
signRefreshToken(userId, username) ==
    jwtSign([sub |-> userId, username |-> username, type |-> "refresh"], refreshTokenExpiry)

\* a record stored under the username instead of the user id
storeRefreshToken_ByUsername(userId, refreshToken) ==
    redisSetex(refresh, refreshToken.username, refreshTokenExpiry, refreshToken)

\* a record stored with the lifetime of the access token
storeRefreshToken_AccessTtl(userId, refreshToken) ==
    redisSetex(refresh, userId, accessTokenExpiry, refreshToken)

storeRefreshToken(userId, refreshToken) ==
    redisSetex(refresh, userId, refreshTokenExpiry, refreshToken)

\* a blacklist that is never written
blacklistToken_Nothing(refreshToken) == blacklist

\* a blacklist entry with the lifetime of the access token
blacklistToken_AccessTtl(refreshToken) ==
    redisSetex(blacklist, refreshToken, accessTokenExpiry, "1")

\* the setex of a blacklist entry, in refreshTokens and in logout
blacklistToken(refreshToken) ==
    redisSetex(blacklist, refreshToken, refreshTokenExpiry, "1")

(***************************************************************************)
(* loginStep2                                                              *)
(***************************************************************************)
\* redis.get of the session
L2Get(p, sessionId, A, M1) ==
    /\ Ready(p)
    /\ LET h == handshake[sessionId]
           req == [Idle EXCEPT !.op = "loginStep2", !.sid = sessionId, !.A = A, !.M1 = M1,
                      !.at = now, !.first = (h.passed = 0), !.late = (h.use = "used")]
       IN  IF ~redisExists(srp, sessionId)
           THEN /\ Return(p, [req EXCEPT !.res = "Session expired or invalid"])
                /\ handshake' = handshake
           ELSE /\ Continue(p, [req EXCEPT !.pc = "del",
                                           !.session = redisGet(srp, sessionId, NoSession)])
                /\ handshake' = [handshake EXCEPT ![sessionId].passed = @ + 1]
    /\ UNCHANGED <<now, db, srp, refresh, blacklist, nextSid, issued, rotated, invalid>>

\* the BigInt of A and of M1, then step2, inside the try block
step2Throws(st, A, M1) ==
    BigIntThrows(A) \/ BigIntThrows(M1) \/ srpStep2Throws(st, A, M1)

\* a loginStep2 that leaves the session in Redis
L2Del_KeepSession(p) ==
    /\ proc[p].op = "loginStep2" /\ proc[p].pc = "del"
    /\ srp' = srp
    /\ LET st == proc[p].session.serverStep1State
       IN  IF step2Throws(st, proc[p].A, proc[p].M1)
           THEN /\ Return(p, [proc[p] EXCEPT !.res = "Invalid credentials"])
                /\ handshake' = [handshake EXCEPT ![proc[p].sid].use = "used"]
           ELSE /\ Continue(p, [proc[p] EXCEPT !.pc = "select",
                                               !.M2 = srpStep2(st, proc[p].A, proc[p].M1)])
                /\ handshake' = handshake
    /\ UNCHANGED <<now, db, refresh, blacklist, nextSid, issued, rotated, invalid>>

\* redis.del of the session, then SRP step2 on the state read before
L2Del(p) ==
    /\ proc[p].op = "loginStep2" /\ proc[p].pc = "del"
    /\ srp' = redisDel(srp, proc[p].sid)
    /\ LET st == proc[p].session.serverStep1State
       IN  IF step2Throws(st, proc[p].A, proc[p].M1)
           THEN /\ Return(p, [proc[p] EXCEPT !.res = "Invalid credentials"])
                /\ handshake' = [handshake EXCEPT ![proc[p].sid].use = "used"]
           ELSE /\ Continue(p, [proc[p] EXCEPT !.pc = "select",
                                               !.M2 = srpStep2(st, proc[p].A, proc[p].M1)])
                /\ handshake' = handshake
    /\ UNCHANGED <<now, db, refresh, blacklist, nextSid, issued, rotated, invalid>>

\* a loginStep2 that takes a row whatever the username of the session
L2Select_AnyUser(p) ==
    /\ proc[p].op = "loginStep2" /\ proc[p].pc = "select"
    /\ LET user == CHOOSE r \in db : TRUE
       IN  /\ Continue(p, [proc[p] EXCEPT !.pc = "store", !.uid = user.id,
                             !.out = signRefreshToken(user.id, user.username)])
           /\ handshake' = handshake
    /\ UNCHANGED <<now, db, srp, refresh, blacklist, nextSid, issued, rotated, invalid>>

\* the select of the user row, then the signing of the tokens
L2Select(p) ==
    /\ proc[p].op = "loginStep2" /\ proc[p].pc = "select"
    /\ LET users == selectUser(proc[p].session.username)
       IN  IF users = {}
           THEN /\ Return(p, [proc[p] EXCEPT !.res = "Invalid credentials", !.M2 = 0])
                /\ handshake' = [handshake EXCEPT ![proc[p].sid].use = "used"]
           ELSE LET user == CHOOSE r \in users : TRUE
                IN  /\ Continue(p, [proc[p] EXCEPT !.pc = "store", !.uid = user.id,
                                      !.out = signRefreshToken(user.id, user.username)])
                    /\ handshake' = handshake
    /\ UNCHANGED <<now, db, srp, refresh, blacklist, nextSid, issued, rotated, invalid>>

\* the setex of generateTokens, and the return
L2Store(p) ==
    /\ proc[p].op = "loginStep2" /\ proc[p].pc = "store"
    /\ refresh' = storeRefreshToken(proc[p].uid, proc[p].out)
    /\ issued' = issued \cup {proc[p].out}
    /\ invalid' = [invalid EXCEPT ![proc[p].uid] = Valid]
    /\ Return(p, [proc[p] EXCEPT !.res = "ok",
                                 !.old = redisGet(refresh, proc[p].uid, NoToken)])
    /\ handshake' = [handshake EXCEPT ![proc[p].sid].use = "used"]
    /\ UNCHANGED <<now, db, srp, blacklist, nextSid, rotated>>

(***************************************************************************)
(* refreshTokens                                                           *)
(***************************************************************************)
\* jwtService.verify, the type check and the blacklist check: the message
\* of the exception thrown, or "pending" when the token passes
checkRefreshToken(refreshToken) ==
    IF ~jwtVerify(refreshToken) THEN "Invalid refresh token"
    ELSE IF refreshToken.type # "refresh" THEN "Invalid token type"
    ELSE IF redisExists(blacklist, refreshToken) THEN "Token has been revoked"
    ELSE "pending"

\* a comparison that only asks whether a record is stored
storedTokenDiffers_PresenceOnly(storedToken, refreshToken) == storedToken = NoToken

\* storedToken !== refreshToken
storedTokenDiffers(storedToken, refreshToken) == storedToken # refreshToken

RVerify(p, refreshToken) ==
    /\ Ready(p)
    /\ LET req == [Idle EXCEPT !.op = "refreshTokens", !.tok = refreshToken, !.at = now,
                      !.late = (refreshToken \in rotated),
                      !.revoked = redisExists(blacklist, refreshToken),
                      !.dead = (refreshToken.sub \in UserIds /\ invalid[refreshToken.sub].dead),
                      !.stale = (refreshToken.sub \in UserIds
                                    /\ refreshToken \in invalid[refreshToken.sub].before)]
       IN  IF checkRefreshToken(refreshToken) # "pending"
           THEN Return(p, [req EXCEPT !.res = checkRefreshToken(refreshToken)])
           ELSE Continue(p, [req EXCEPT !.pc = "get"])
    /\ UNCHANGED <<now, db, srp, refresh, blacklist, nextSid, handshake, issued, rotated, invalid>>

\* redis.get of the stored token and the comparison; on a match the new
\* tokens are signed
RGet(p) ==
    /\ proc[p].op = "refreshTokens" /\ proc[p].pc = "get"
    /\ LET payload == proc[p].tok
           storedToken == redisGet(refresh, payload.sub, NoToken)
       IN  IF storedTokenDiffers(storedToken, payload)
           THEN Continue(p, [proc[p] EXCEPT !.pc = "del", !.uid = payload.sub,
                               !.seen = storedToken])
           ELSE Continue(p, [proc[p] EXCEPT !.pc = "store", !.uid = payload.sub,
                               !.seen = storedToken,
                               !.out = signRefreshToken(payload.sub, payload.username)])
    /\ UNCHANGED <<now, db, srp, refresh, blacklist, nextSid, handshake, issued, rotated, invalid>>

\* the mismatch path: redis.del of the stored token, then the throw
RDel(p) ==
    /\ proc[p].op = "refreshTokens" /\ proc[p].pc = "del"
    /\ refresh' = redisDel(refresh, proc[p].tok.sub)
    /\ invalid' = [invalid EXCEPT ![proc[p].tok.sub].dead = TRUE]
    /\ Return(p, [proc[p] EXCEPT !.res = "Invalid refresh token"])
    /\ UNCHANGED <<now, db, srp, blacklist, nextSid, handshake, issued, rotated>>

\* the setex of generateTokens
RStore(p) ==
    /\ proc[p].op = "refreshTokens" /\ proc[p].pc = "store"
    /\ refresh' = storeRefreshToken(proc[p].uid, proc[p].out)
    /\ Continue(p, [proc[p] EXCEPT !.pc = "blacklist",
                                   !.old = redisGet(refresh, proc[p].uid, NoToken)])
    /\ UNCHANGED <<now, db, srp, blacklist, nextSid, handshake, issued, rotated, invalid>>

\* the setex of the blacklist entry of the old token, and the return
RBlacklist(p) ==
    /\ proc[p].op = "refreshTokens" /\ proc[p].pc = "blacklist"
    /\ blacklist' = blacklistToken(proc[p].tok)
    /\ issued' = issued \cup {proc[p].out}
    /\ rotated' = IF proc[p].out # proc[p].tok THEN rotated \cup {proc[p].tok} ELSE rotated
    /\ Return(p, [proc[p] EXCEPT !.res = "ok"])
    /\ UNCHANGED <<now, db, srp, refresh, nextSid, handshake, invalid>>

(***************************************************************************)
(* logout                                                                  *)
(***************************************************************************)
\* the history of a user when logout returns
LoggedOut(history, userId) ==
    IF history[userId].out
    THEN [history EXCEPT ![userId].before = {t \in issued : t.sub = userId}]
    ELSE history

\* a logout that has nothing left to do: no record is stored for the user
\* and the token, if one is supplied, is on the blacklist
LoggedOutAlready(userId, refreshToken) ==
    /\ ~redisExists(refresh, userId)
    /\ refreshToken # NoToken => redisExists(blacklist, refreshToken)

\* a logout that refuses a token jwtService.verify rejects
LogoutDel_Verified(p, userId, refreshToken) ==
    /\ Ready(p)
    /\ LET req == [Idle EXCEPT !.op = "logout", !.uid = userId, !.tok = refreshToken,
                      !.again = LoggedOutAlready(userId, refreshToken)]
       IN  IF refreshToken # NoToken /\ ~jwtVerify(refreshToken)
           THEN /\ Return(p, [req EXCEPT !.res = "Invalid refresh token"])
                /\ UNCHANGED <<refresh, invalid>>
           ELSE /\ refresh' = redisDel(refresh, userId)
                /\ IF refreshToken # NoToken
                   THEN /\ Continue(p, [req EXCEPT !.pc = "blacklist"])
                        /\ invalid' = [invalid EXCEPT ![userId].out = TRUE]
                   ELSE /\ Return(p, [req EXCEPT !.res = "ok"])
                        /\ invalid' = LoggedOut([invalid EXCEPT ![userId].out = TRUE], userId)
    /\ UNCHANGED <<now, db, srp, blacklist, nextSid, handshake, issued, rotated>>

\* redis.del of the stored token
LogoutDel(p, userId, refreshToken) ==
    /\ Ready(p)
    /\ refresh' = redisDel(refresh, userId)
    /\ LET req == [Idle EXCEPT !.op = "logout", !.uid = userId, !.tok = refreshToken,
                      !.again = LoggedOutAlready(userId, refreshToken)]
       IN  IF refreshToken # NoToken
           THEN /\ Continue(p, [req EXCEPT !.pc = "blacklist"])
                /\ invalid' = [invalid EXCEPT ![userId].out = TRUE]
           ELSE /\ Return(p, [req EXCEPT !.res = "ok"])
                /\ invalid' = LoggedOut([invalid EXCEPT ![userId].out = TRUE], userId)
    /\ UNCHANGED <<now, db, srp, blacklist, nextSid, handshake, issued, rotated>>

\* the setex of the blacklist entry of the supplied token
LogoutBlacklist(p) ==
    /\ proc[p].op = "logout" /\ proc[p].pc = "blacklist"
    /\ blacklist' = blacklistToken(proc[p].tok)
    /\ invalid' = LoggedOut(invalid, proc[p].uid)
    /\ Return(p, [proc[p] EXCEPT !.res = "ok"])
    /\ UNCHANGED <<now, db, srp, refresh, nextSid, handshake, issued, rotated>>

(***************************************************************************)
(* validateToken, and the guard of the protected routes                    *)
(***************************************************************************)
ValidateToken(p, token) ==
    /\ Ready(p)
    /\ LET user == validateToken(token)
       IN  Return(p, [Idle EXCEPT !.op = "validateToken", !.tok = token,
                                  !.uid = user.id, !.username = user.username,
                                  !.res = IF user = NoUser THEN "null" ELSE "identity"])
    /\ UNCHANGED <<now, db, srp, refresh, blacklist, nextSid, handshake, issued, rotated,
                   invalid>>

JwtValidate(p, token) ==
    /\ Ready(p)
    /\ Return(p, [Idle EXCEPT !.op = "JwtStrategy.validate", !.tok = token,
                              !.uid = IF jwtStrategyValidate(token) = "ok"
                                      THEN token.sub ELSE "",
                              !.res = jwtStrategyValidate(token)])
    /\ UNCHANGED <<now, db, srp, refresh, blacklist, nextSid, handshake, issued, rotated,
                   invalid>>

(***************************************************************************)
(* Store failures: the command a request is about to issue rejects (an     *)
(* error or a timeout of Redis or of the database) and changes nothing.    *)
(***************************************************************************)
\* what the handler reports when the store command at pc rejects:
\* loginStep2 awaits its get and its del outside the try block, and turns
\* every error thrown inside it into 'Invalid credentials'; refreshTokens
\* turns every error that is not an UnauthorizedException into 'Invalid
\* refresh token'
reported(op, pc) ==
    IF op = "refreshTokens" THEN "Invalid refresh token"
    ELSE IF pc \in {"get", "del"} THEN "StoreError"
    ELSE "Invalid credentials"

\* redis.get of the session rejects
L2GetFails(p, sessionId, A, M1) ==
    /\ Ready(p)
    /\ Return(p, [Idle EXCEPT !.op = "loginStep2", !.sid = sessionId, !.fault = TRUE,
                              !.res = reported("loginStep2", "get")])
    /\ UNCHANGED <<now, db, srp, refresh, blacklist, nextSid, handshake, issued, rotated,
                   invalid>>

\* redis.del of the session, the select of the user row or the setex of
\* generateTokens rejects
L2Fails(p) ==
    /\ proc[p].op = "loginStep2" /\ proc[p].pc \in {"del", "select", "store"}
    /\ Return(p, [Idle EXCEPT !.op = "loginStep2", !.sid = proc[p].sid, !.fault = TRUE,
                              !.res = reported("loginStep2", proc[p].pc)])
    /\ handshake' = IF proc[p].pc = "del" THEN handshake
                    ELSE [handshake EXCEPT ![proc[p].sid].use = "used"]
    /\ UNCHANGED <<now, db, srp, refresh, blacklist, nextSid, issued, rotated, invalid>>

\* redis.exists of the blacklist entry rejects, for a token that passed
\* jwtService.verify and the type check
RExistsFails(p, refreshToken) ==
    /\ Ready(p)
    /\ jwtVerify(refreshToken) /\ refreshToken.type = "refresh"
    /\ Return(p, [Idle EXCEPT !.op = "refreshTokens", !.tok = refreshToken, !.fault = TRUE,
                              !.res = reported("refreshTokens", "exists")])
    /\ UNCHANGED <<now, db, srp, refresh, blacklist, nextSid, handshake, issued, rotated,
                   invalid>>

\* redis.get or redis.del of the stored token, or one of the two setex,
\* rejects
RFails(p) ==
    /\ proc[p].op = "refreshTokens" /\ proc[p].pc \in {"get", "del", "store", "blacklist"}
    /\ Return(p, [Idle EXCEPT !.op = "refreshTokens", !.tok = proc[p].tok, !.fault = TRUE,
                              !.res = reported("refreshTokens", proc[p].pc)])
    /\ UNCHANGED <<now, db, srp, refresh, blacklist, nextSid, handshake, issued, rotated,
                   invalid>>

(***************************************************************************)
(* The inputs of the requests.                                             *)
(***************************************************************************)
\* the conformant login of a registered user
HonestInputs(sessionId) ==
    LET h == handshake[sessionId]
    IN  {completeSRPLogin(h.username, passwordOf(h.username), h.salt, h.B, a) :
            a \in ClientEphemerals}

\* what a client that ran loginStep1 for a session can send to loginStep2:
\* the A and M1 of a conformant client for each password, and A = 0
Step2Inputs(sessionId) ==
    LET h == handshake[sessionId]
    IN  IF h.use = "none" THEN {[A |-> 0, M1 |-> 0]}
        ELSE {completeSRPLogin(h.username, pw, h.salt, h.B, a) :
                 pw \in Passwords, a \in ClientEphemerals} \cup {[A |-> 0, M1 |-> 0]}

\* what register can be sent: the salt and verifier of a conformant client
\* for each password, and a salt that is not hexadecimal
RegisterCredentials(name) ==
    {generateSRPCredentials(name, pw, salt) : pw \in Passwords, salt \in Salts}
       \cup {[salt |-> NotHex, verifier |-> 1]}

\* what a client that attacks a session can send to loginStep2: an A that
\* is 0 modulo N with the proof of the session key 0 it forces, and an A or
\* an M1 that is not hexadecimal
MalformedInputs(sessionId) ==
    LET h == handshake[sessionId]
    IN  {[A |-> A, M1 |-> computeClientEvidence(A, h.B, 0)] : A \in {0, SRPParameters.N}}
           \cup {[A |-> NotHex, M1 |-> in.M1] : in \in HonestInputs(sessionId)}
           \cup {[A |-> in.A, M1 |-> NotHex] : in \in HonestInputs(sessionId)}

\* the tokens a client can hold
HeldTokens == issued \cup {accessTokenOf(t) : t \in issued}

\* the tokens logout can be called with: none, and the held ones, of which
\* the access tokens and the expired ones are no valid refresh tokens
LogoutTokens == HeldTokens \cup {NoToken}

\* the tokens a caller can present: the held ones, a refresh token
\* relabelled as an access token, a token of another subject, and garbage
PresentedTokens ==
    HeldTokens \cup {[t EXCEPT !.type = "access"] : t \in issued}
               \cup {[t EXCEPT !.sub = uuid("bob")] : t \in HeldTokens}
               \cup {NoToken}

\* the login handshake, with every input
LoginNext ==
    \/ Tick
    \/ \E p \in Procs, name \in NameInputs, ok \in BOOLEAN, b \in ServerEphemerals :
          nextSid < MaxSessions /\ LoginStep1(p, name, ok, b)
    \/ \E p \in Procs, sid \in 1..MaxSessions :
          \E in \in Step2Inputs(sid) : L2Get(p, sid, in.A, in.M1)
    \/ \E p \in Procs : L2Del(p)
    \/ \E p \in Procs : L2Select(p)
    \/ \E p \in Procs : L2Store(p)

\* the life of the tokens: logins that succeed, refreshes and logouts
TokenNext ==
    \/ now + TickStep <= MaxTokenTime /\ Tick
    \/ \E p \in Procs, r \in db, b \in ServerEphemerals :
          nextSid < MaxLogins /\ LoginStep1(p, r.username, TRUE, b)
    \/ \E p \in Procs, sid \in 1..nextSid :
          \E in \in HonestInputs(sid) : L2Get(p, sid, in.A, in.M1)
    \/ \E p \in Procs : L2Del(p)
    \/ \E p \in Procs : L2Select(p)
    \/ \E p \in Procs : L2Store(p)
    \/ \E p \in Procs, t \in HeldTokens : RVerify(p, t)
    \/ \E p \in Procs : RGet(p)
    \/ \E p \in Procs : RDel(p)
    \/ \E p \in Procs : RStore(p)
    \/ \E p \in Procs : RBlacklist(p)
    \/ \E p \in Procs, r \in db, t \in issued \cup {NoToken} : LogoutDel(p, r.id, t)
    \/ \E p \in Procs : LogoutBlacklist(p)

\* registrations, each followed by the logins of conformant clients
RegisterNext ==
    \/ \E p \in Procs, name \in RegisterNames, ok \in BOOLEAN :
          \E c \in RegisterCredentials(name) : RegisterSelect(p, name, c.salt, c.verifier, ok)
    \/ \E p \in Procs : RegisterInsert(p)
    \/ \E p \in Procs, name \in NameInputs, ok \in BOOLEAN, b \in ServerEphemerals :
          nextSid < MaxLogins /\ LoginStep1(p, name, ok, b)
    \/ \E p \in Procs, sid \in 1..nextSid :
          \E in \in HonestInputs(sid) : L2Get(p, sid, in.A, in.M1)
    \/ \E p \in Procs : L2Del(p)
    \/ \E p \in Procs : L2Select(p)
    \/ \E p \in Procs : L2Store(p)

\* logins of conformant clients and refreshes, without logout
RotateNext ==
    \/ now + TickStep <= MaxTokenTime /\ Tick
    \/ \E p \in Procs, r \in db, b \in ServerEphemerals :
          nextSid < MaxLogins /\ LoginStep1(p, r.username, TRUE, b)
    \/ \E p \in Procs, sid \in 1..nextSid :
          \E in \in HonestInputs(sid) : L2Get(p, sid, in.A, in.M1)
    \/ \E p \in Procs : L2Del(p)
    \/ \E p \in Procs : L2Select(p)
    \/ \E p \in Procs : L2Store(p)
    \/ \E p \in Procs, t \in HeldTokens : RVerify(p, t)
    \/ \E p \in Procs : RGet(p)
    \/ \E p \in Procs : RDel(p)
    \/ \E p \in Procs : RStore(p)
    \/ \E p \in Procs : RBlacklist(p)

\* logins and refreshes over stores that can fail
FaultNext ==
    \/ now + TickStep <= MaxTokenTime /\ Tick
    \/ \E p \in Procs, r \in db, b \in ServerEphemerals :
          nextSid < MaxLogins /\ LoginStep1(p, r.username, TRUE, b)
    \/ \E p \in Procs, sid \in 1..nextSid :
          \E in \in HonestInputs(sid) :
             handshake[sid].passed < MaxPasses /\ L2Get(p, sid, in.A, in.M1)
    \/ \E p \in Procs : L2Del(p)
    \/ \E p \in Procs : L2Select(p)
    \/ \E p \in Procs : L2Store(p)
    \/ \E p \in Procs, t \in HeldTokens : RVerify(p, t)
    \/ \E p \in Procs : RGet(p)
    \/ \E p \in Procs : RDel(p)
    \/ \E p \in Procs : RStore(p)
    \/ \E p \in Procs : RBlacklist(p)
    \/ \E p \in Procs, sid \in 1..nextSid :
          \E in \in HonestInputs(sid) : L2GetFails(p, sid, in.A, in.M1)
    \/ \E p \in Procs : L2Fails(p)
    \/ \E p \in Procs, t \in HeldTokens : RExistsFails(p, t)
    \/ \E p \in Procs : RFails(p)

\* logins, refreshes and the validation of the tokens presented
ValidateNext ==
    \/ RotateNext
    \/ \E p \in Procs, t \in PresentedTokens : ValidateToken(p, t)
    \/ \E p \in Procs, t \in PresentedTokens : JwtValidate(p, t)

\* logins of conformant clients and logouts of every user id
LogoutNext ==
    \/ now + TickStep <= MaxTokenTime /\ Tick
    \/ \E p \in Procs, r \in db, b \in ServerEphemerals :
          nextSid < MaxLogins /\ LoginStep1(p, r.username, TRUE, b)
    \/ \E p \in Procs, sid \in 1..nextSid :
          \E in \in HonestInputs(sid) : L2Get(p, sid, in.A, in.M1)
    \/ \E p \in Procs : L2Del(p)
    \/ \E p \in Procs : L2Select(p)
    \/ \E p \in Procs : L2Store(p)
    \/ \E p \in Procs, u \in UserIds, t \in LogoutTokens : LogoutDel(p, u, t)
    \/ \E p \in Procs : LogoutBlacklist(p)

\* handshakes of alice that conformant clients and attackers complete
MalformedNext ==
    \/ Tick
    \/ \E p \in Procs, r \in db, b \in ServerEphemerals :
          nextSid < MaxLogins /\ LoginStep1(p, r.username, TRUE, b)
    \/ \E p \in Procs, sid \in 1..nextSid :
          \E in \in HonestInputs(sid) \cup MalformedInputs(sid) : L2Get(p, sid, in.A, in.M1)
    \/ \E p \in Procs : L2Del(p)
    \/ \E p \in Procs : L2Select(p)
    \/ \E p \in Procs : L2Store(p)

\* two logins of conformant clients, refreshes and logouts with a token
RevokeNext ==
    \/ now + TickStep <= MaxTokenTime /\ Tick
    \/ \E p \in Procs, r \in db, b \in ServerEphemerals :
          nextSid < MaxSessions /\ LoginStep1(p, r.username, TRUE, b)
    \/ \E p \in Procs, sid \in 1..nextSid :
          \E in \in HonestInputs(sid) : L2Get(p, sid, in.A, in.M1)
    \/ \E p \in Procs : L2Del(p)
    \/ \E p \in Procs : L2Select(p)
    \/ \E p \in Procs : L2Store(p)
    \/ \E p \in Procs, t \in issued : RVerify(p, t)
    \/ \E p \in Procs : RGet(p)
    \/ \E p \in Procs : RDel(p)
    \/ \E p \in Procs : RStore(p)
    \/ \E p \in Procs : RBlacklist(p)
    \/ \E p \in Procs, r \in db, t \in issued : LogoutDel(p, r.id, t)
    \/ \E p \in Procs : LogoutBlacklist(p)

\* no request is in flight
Quiet == \A p \in Procs : proc[p].op = "none"

\* the calls of clients that make one call at a time: a call starts when
\* the one before it has returned
SerialNext ==
    \/ now + TickStep <= MaxTokenTime /\ Tick
    \/ \E p \in Procs, r \in db, b \in ServerEphemerals :
          Quiet /\ nextSid < MaxSessions /\ LoginStep1(p, r.username, TRUE, b)
    \/ \E p \in Procs, sid \in 1..nextSid :
          \E in \in HonestInputs(sid) : Quiet /\ L2Get(p, sid, in.A, in.M1)
    \/ \E p \in Procs : L2Del(p)
    \/ \E p \in Procs : L2Select(p)
    \/ \E p \in Procs : L2Store(p)
    \/ \E p \in Procs, t \in HeldTokens : Quiet /\ RVerify(p, t)
    \/ \E p \in Procs : RGet(p)
    \/ \E p \in Procs : RDel(p)
    \/ \E p \in Procs : RStore(p)
    \/ \E p \in Procs : RBlacklist(p)
    \/ \E p \in Procs, r \in db, t \in issued \cup {NoToken} :
          Quiet /\ LogoutDel(p, r.id, t)
    \/ \E p \in Procs : LogoutBlacklist(p)

\* POST /auth/logout: the guard admits the bearer of a valid access token,
\* and logout is called with the user id of that token and the
\* refreshToken of the body
ControllerLogout(p, accessToken, refreshToken) ==
    /\ jwtStrategyValidate(accessToken) = "ok"
    /\ LogoutDel(p, accessToken.sub, refreshToken)

\* two users whose clients make one call at a time; logout goes through
\* the controller
UsersNext ==
    \/ now + TickStep <= MaxTokenTime /\ Tick
    \/ \E p \in Procs, r \in db, b \in ServerEphemerals :
          Quiet /\ nextSid < MaxSessions /\ LoginStep1(p, r.username, TRUE, b)
    \/ \E p \in Procs, sid \in 1..nextSid :
          \E in \in HonestInputs(sid) : Quiet /\ L2Get(p, sid, in.A, in.M1)
    \/ \E p \in Procs : L2Del(p)
    \/ \E p \in Procs : L2Select(p)
    \/ \E p \in Procs : L2Store(p)
    \/ \E p \in Procs, t \in HeldTokens : Quiet /\ RVerify(p, t)
    \/ \E p \in Procs : RGet(p)
    \/ \E p \in Procs : RDel(p)
    \/ \E p \in Procs : RStore(p)
    \/ \E p \in Procs : RBlacklist(p)
    \/ \E p \in Procs, a \in HeldTokens, t \in issued \cup {NoToken} :
          Quiet /\ ControllerLogout(p, a, t)
    \/ \E p \in Procs : LogoutBlacklist(p)

\* the life of the tokens, and the validation of the tokens clients hold
AccessNext ==
    \/ TokenNext
    \/ \E p \in Procs, t \in HeldTokens : ValidateToken(p, t)
    \/ \E p \in Procs, t \in HeldTokens : JwtValidate(p, t)

\* the handshakes of the registered users, completed with every input
HandshakesNext ==
    \/ now + TickStep <= MaxTokenTime /\ Tick
    \/ \E p \in Procs, r \in db, b \in ServerEphemerals :
          nextSid < MaxSessions /\ LoginStep1(p, r.username, TRUE, b)
    \/ \E p \in Procs, sid \in 1..MaxSessions :
          \E in \in Step2Inputs(sid) : L2Get(p, sid, in.A, in.M1)
    \/ \E p \in Procs : L2Del(p)
    \/ \E p \in Procs : L2Select(p)
    \/ \E p \in Procs : L2Store(p)

\* one login of a conformant client, which signs a pair of tokens
DurationNext ==
    \/ \E p \in Procs, r \in db, b \in ServerEphemerals :
          nextSid < MaxLogins /\ LoginStep1(p, r.username, TRUE, b)
    \/ \E p \in Procs, sid \in 1..nextSid :
          \E in \in HonestInputs(sid) : L2Get(p, sid, in.A, in.M1)
    \/ \E p \in Procs : L2Del(p)
    \/ \E p \in Procs : L2Select(p)
    \/ \E p \in Procs : L2Store(p)

SpecLogin == Init /\ [][LoginNext]_vars

SpecDuration == InitDurations /\ [][DurationNext]_vars

SpecHandshakes == InitUsers /\ [][HandshakesNext]_vars

SpecAccess == Init /\ [][AccessNext]_vars

SpecUsers == InitUsers /\ [][UsersNext]_vars

SpecSerial == Init /\ [][SerialNext]_vars

SpecRevoke == Init /\ [][RevokeNext]_vars

SpecMalformed == Init /\ [][MalformedNext]_vars

SpecLogout == Init /\ [][LogoutNext]_vars

SpecValidate == Init /\ [][ValidateNext]_vars

SpecFault == Init /\ [][FaultNext]_vars

SpecRotate == Init /\ [][RotateNext]_vars

SpecConfig == InitConfig /\ [][RotateNext]_vars

SpecRegister == Init /\ [][RegisterNext]_vars

Spec == Init /\ [][TokenNext]_vars

(***************************************************************************)
(* The auth store of the web client.  Each call of the store is a          *)
(* sequence of steps, one per awaited request; the server is the           *)
(* environment, and a request to it succeeds or fails.                     *)
(***************************************************************************)
\* what authApi.me resolves with
WebUsers == {"alice", "bob"}

getAccessToken == web.auth_token
getRefreshToken == web.auth_refresh_token
storeTokens(w, accessToken, refreshToken) ==
    [w EXCEPT !.auth_token = accessToken, !.auth_refresh_token = refreshToken]

\* a clearTokens that leaves the refresh token
clearTokens_AccessOnly(w) == [w EXCEPT !.auth_token = ""]
clearTokens(w) == [w EXCEPT !.auth_token = "", !.auth_refresh_token = ""]

\* slot c is free, and no pending call waits for a promise of slot c
Free(c) ==
    /\ web.calls[c].op = "none"
    /\ \A d \in Callers : web.calls[d].awaits # c

\* the call of slot c goes on, or settles: its promise resolves or rejects
Goes(w, c, call) == [w EXCEPT !.calls[c] = call, !.settled = NoCall]
Settles(w, c, call, how) ==
    [w EXCEPT !.calls[c] = NoCall, !.settled = [call EXCEPT !.pc = how, !.by = c]]

\* the finally block of fetchUser
releasePromise(w) == [w EXCEPT !.fetchUserPromise = 0]

\* fetchUser without the check of fetchUserPromise
FetchUser_NoReuse(c) ==
    /\ Free(c)
    /\ LET call == [NoCall EXCEPT !.op = "fetchUser", !.token = (getAccessToken # "")]
       IN  IF getAccessToken = ""
           THEN web' = Settles([web EXCEPT !.user = "null"], c, call, "resolved")
           ELSE web' = Goes([web EXCEPT !.fetchUserPromise = c], c,
                            [call EXCEPT !.pc = "me", !.awaits = c])
    /\ UNCHANGED <<now, db, srp, refresh, blacklist, nextSid, handshake, issued, rotated,
                   invalid, proc, ret, env, rooms>>

\* fetchUser up to its first await: the pending promise is returned, or
\* user is cleared for want of a token, or authApi.me is called
FetchUser(c) ==
    /\ Free(c)
    /\ LET call == [NoCall EXCEPT !.op = "fetchUser", !.token = (getAccessToken # "")]
       IN  IF web.fetchUserPromise # 0
           THEN web' = Goes(web, c, [call EXCEPT !.pc = "shared",
                                                 !.awaits = web.fetchUserPromise])
           ELSE IF getAccessToken = ""
           THEN web' = Settles([web EXCEPT !.user = "null"], c, call, "resolved")
           ELSE web' = Goes([web EXCEPT !.fetchUserPromise = c], c,
                            [call EXCEPT !.pc = "me", !.awaits = c])
    /\ UNCHANGED <<now, db, srp, refresh, blacklist, nextSid, handshake, issued, rotated,
                   invalid, proc, ret, env, rooms>>

\* a call that got the pending promise settles once that promise has
SharedSettles(c) ==
    /\ web.calls[c].pc = "shared"
    /\ web.calls[web.calls[c].awaits].op = "none"
    /\ web' = Settles(web, c, web.calls[c], "resolved")
    /\ UNCHANGED <<now, db, srp, refresh, blacklist, nextSid, handshake, issued, rotated,
                   invalid, proc, ret, env, rooms>>

\* a first me() that keeps the user it had when me() fails
MeSettles_NoRefresh(c, r) ==
    /\ web.calls[c].op = "fetchUser" /\ web.calls[c].pc = "me"
    /\ LET call == [web.calls[c] EXCEPT !.log = Append(@, r)]
       IN  IF r # "fail"
           THEN web' = Settles(releasePromise([web EXCEPT !.user = r]), c, call, "resolved")
           ELSE web' = Settles(releasePromise(web), c, call, "resolved")
    /\ UNCHANGED <<now, db, srp, refresh, blacklist, nextSid, handshake, issued, rotated,
                   invalid, proc, ret, env, rooms>>

\* the first me() settles: on success user is set; on failure
\* authApi.refresh is called, which throws without a refresh token
MeSettles(c, r) ==
    /\ web.calls[c].op = "fetchUser" /\ web.calls[c].pc = "me"
    /\ LET call == [web.calls[c] EXCEPT !.log = Append(@, r)]
       IN  IF r # "fail"
           THEN web' = Settles(releasePromise([web EXCEPT !.user = r]), c, call, "resolved")
           ELSE IF getRefreshToken = ""
           THEN web' = Settles(releasePromise([web EXCEPT !.user = "null"]), c,
                               [call EXCEPT !.log = Append(@, "No refresh token")],
                               "resolved")
           ELSE web' = Goes(web, c, [call EXCEPT !.pc = "refresh"])
    /\ UNCHANGED <<now, db, srp, refresh, blacklist, nextSid, handshake, issued, rotated,
                   invalid, proc, ret, env, rooms>>

\* the refresh settles: on success the new tokens are stored and me() is
\* called again; on failure user is cleared
RefreshSettles(c, ok) ==
    /\ web.calls[c].op = "fetchUser" /\ web.calls[c].pc = "refresh"
    /\ LET call == [web.calls[c] EXCEPT !.log = Append(@, IF ok THEN "refreshed"
                                                                ELSE "refresh failed")]
       IN  IF ok
           THEN web' = Goes(storeTokens(web, "access-2", "refresh-2"), c,
                            [call EXCEPT !.pc = "me again"])
           ELSE web' = Settles(releasePromise([web EXCEPT !.user = "null"]), c, call,
                               "resolved")
    /\ UNCHANGED <<now, db, srp, refresh, blacklist, nextSid, handshake, issued, rotated,
                   invalid, proc, ret, env, rooms>>

\* the second me() settles
MeAgainSettles(c, r) ==
    /\ web.calls[c].op = "fetchUser" /\ web.calls[c].pc = "me again"
    /\ web' = Settles(releasePromise([web EXCEPT !.user = IF r # "fail" THEN r ELSE "null"]),
                      c, [web.calls[c] EXCEPT !.log = Append(@, r)], "resolved")
    /\ UNCHANGED <<now, db, srp, refresh, blacklist, nextSid, handshake, issued, rotated,
                   invalid, proc, ret, env, rooms>>

\* store.login up to its await
StoreLogin(c) ==
    /\ Free(c)
    /\ web' = Goes([web EXCEPT !.loading = TRUE], c,
                   [NoCall EXCEPT !.op = "login", !.pc = "login"])
    /\ UNCHANGED <<now, db, srp, refresh, blacklist, nextSid, handshake, issued, rotated,
                   invalid, proc, ret, env, rooms>>

\* authApi.login settles: on success the tokens are stored and user is set
StoreLoginSettles(c, r) ==
    /\ web.calls[c].op = "login"
    /\ LET call == [web.calls[c] EXCEPT !.log = Append(@, r)]
       IN  IF r # "fail"
           THEN web' = Settles([storeTokens(web, "access-1", "refresh-1")
                                   EXCEPT !.user = r, !.loading = FALSE],
                               c, call, "resolved")
           ELSE web' = Settles([web EXCEPT !.loading = FALSE], c, call, "rejected")
    /\ UNCHANGED <<now, db, srp, refresh, blacklist, nextSid, handshake, issued, rotated,
                   invalid, proc, ret, env, rooms>>

\* store.logout up to the POST of authApi.logout
StoreLogout(c) ==
    /\ Free(c)
    /\ web' = Goes([web EXCEPT !.loading = TRUE], c,
                   [NoCall EXCEPT !.op = "logout", !.pc = "post"])
    /\ UNCHANGED <<now, db, srp, refresh, blacklist, nextSid, handshake, issued, rotated,
                   invalid, proc, ret, env, rooms>>

\* the POST of authApi.logout settles: its error is ignored, the tokens
\* are cleared and authApi.logout resolves
ApiLogoutSettles(c, ok) ==
    /\ web.calls[c].op = "logout" /\ web.calls[c].pc = "post"
    /\ web' = Goes(clearTokens(web), c,
                   [web.calls[c] EXCEPT !.pc = "finally",
                                        !.log = Append(@, IF ok THEN "logged out"
                                                                ELSE "failed")])
    /\ UNCHANGED <<now, db, srp, refresh, blacklist, nextSid, handshake, issued, rotated,
                   invalid, proc, ret, env, rooms>>

\* the finally block of store.logout
StoreLogoutSettles(c) ==
    /\ web.calls[c].op = "logout" /\ web.calls[c].pc = "finally"
    /\ web' = Settles([web EXCEPT !.user = "null", !.loading = FALSE], c,
                      web.calls[c], "resolved")
    /\ UNCHANGED <<now, db, srp, refresh, blacklist, nextSid, handshake, issued, rotated,
                   invalid, proc, ret, env, rooms>>

\* the calls of the pages and of the router guard, in any order
WebNext ==
    \/ \E c \in Callers : FetchUser(c)
    \/ \E c \in Callers : SharedSettles(c)
    \/ \E c \in Callers, r \in WebUsers \cup {"fail"} : MeSettles(c, r)
    \/ \E c \in Callers, ok \in BOOLEAN : RefreshSettles(c, ok)
    \/ \E c \in Callers, r \in WebUsers \cup {"fail"} : MeAgainSettles(c, r)
    \/ \E c \in Callers : StoreLogin(c)
    \/ \E c \in Callers, r \in WebUsers \cup {"fail"} : StoreLoginSettles(c, r)
    \/ \E c \in Callers : StoreLogout(c)
    \/ \E c \in Callers, ok \in BOOLEAN : ApiLogoutSettles(c, ok)
    \/ \E c \in Callers : StoreLogoutSettles(c)

SpecWeb == Init /\ [][WebNext]_vars

(***************************************************************************)
(* The room service.  Each call is a sequence of steps, one per awaited    *)
(* Redis command, on the keys of one room code.                            *)
(***************************************************************************)
\* the hash of the members: hset keeps the place of a field it has, hdel
\* removes the field
hexists(members, odId) == \E i \in 1..Len(members) : members[i] = odId
hset(members, odId) == IF hexists(members, odId) THEN members ELSE Append(members, odId)
hdel(members, odId) == SelectSeq(members, LAMBDA m : m # odId)

\* a new call takes the first free slot
RoomReady(c) ==
    /\ rooms.made < MaxRoomOps
    /\ rooms.calls[c].op = "none"
    /\ \A d \in RoomCallers : d < c => rooms.calls[d].op # "none"

\* the call of slot c goes on to its next command, or returns
RoomGoes(r, c, call) ==
    [r EXCEPT !.calls[c] = call, !.returned = NoRoomCall,
              !.made = IF r.calls[c].op = "none" THEN @ + 1 ELSE @]
RoomReturns(r, c, call, res) ==
    [r EXCEPT !.calls[c] = NoRoomCall,
              !.made = IF r.calls[c].op = "none" THEN @ + 1 ELSE @,
              !.returned = [NoRoomCall EXCEPT !.op = call.op, !.pc = "done",
                                              !.odId = call.odId, !.by = call.by,
                                              !.res = res]]

\* getRoomState: redis.get of the room; null ends the call
getRoom(c, call) ==
    IF rooms.room = NoRoom
    THEN RoomReturns(rooms, c, call, IF call.op \in {"leaveRoom", "kickMember"}
                                      THEN "false" ELSE "null")
    ELSE RoomGoes(rooms, c, [call EXCEPT !.pc = "hgetall", !.state.room = rooms.room])

\* createRoom: redis.exists of the room code
CreateRoom(c, odId, gameMode) ==
    /\ RoomReady(c)
    /\ LET call == [NoRoomCall EXCEPT !.op = "createRoom", !.odId = odId]
           room == [ownerId |-> odId, gameMode |-> gameMode,
                    maxPlayers |-> maxPlayersOf(gameMode), status |-> "waiting"]
       IN  IF rooms.room # NoRoom
           THEN rooms' = RoomReturns(rooms, c, call, "Error: room code in use")
           ELSE rooms' = RoomGoes(rooms, c, [call EXCEPT !.pc = "set", !.state.room = room])
    /\ UNCHANGED <<now, db, srp, refresh, blacklist, nextSid, handshake, issued, rotated,
                   invalid, proc, ret, env, web>>

\* redis.set of the room
CreateSet(c) ==
    /\ rooms.calls[c].op = "createRoom" /\ rooms.calls[c].pc = "set"
    /\ rooms' = RoomGoes([rooms EXCEPT !.room = rooms.calls[c].state.room], c,
                         [rooms.calls[c] EXCEPT !.pc = "hset"])
    /\ UNCHANGED <<now, db, srp, refresh, blacklist, nextSid, handshake, issued, rotated,
                   invalid, proc, ret, env, web>>

\* redis.hset of the owner
CreateHset(c) ==
    /\ rooms.calls[c].op = "createRoom" /\ rooms.calls[c].pc = "hset"
    /\ rooms' = RoomGoes([rooms EXCEPT !.members = hset(@, rooms.calls[c].odId)], c,
                         [rooms.calls[c] EXCEPT !.pc = "sadd"])
    /\ UNCHANGED <<now, db, srp, refresh, blacklist, nextSid, handshake, issued, rotated,
                   invalid, proc, ret, env, web>>

\* redis.sadd to the set of all rooms, and the return
CreateSadd(c) ==
    /\ rooms.calls[c].op = "createRoom" /\ rooms.calls[c].pc = "sadd"
    /\ rooms' = RoomReturns([rooms EXCEPT !.allRooms = {"code"}], c,
                            [rooms.calls[c] EXCEPT !.state.members = <<rooms.calls[c].odId>>],
                            "state")
    /\ UNCHANGED <<now, db, srp, refresh, blacklist, nextSid, handshake, issued, rotated,
                   invalid, proc, ret, env, web>>

\* joinRoom, leaveRoom, kickMember and resetRoom start with getRoomState
JoinRoom(c, odId) ==
    /\ RoomReady(c)
    /\ rooms' = getRoom(c, [NoRoomCall EXCEPT !.op = "joinRoom", !.odId = odId])
    /\ UNCHANGED <<now, db, srp, refresh, blacklist, nextSid, handshake, issued, rotated,
                   invalid, proc, ret, env, web>>

LeaveRoom(c, odId) ==
    /\ RoomReady(c)
    /\ rooms' = getRoom(c, [NoRoomCall EXCEPT !.op = "leaveRoom", !.odId = odId])
    /\ UNCHANGED <<now, db, srp, refresh, blacklist, nextSid, handshake, issued, rotated,
                   invalid, proc, ret, env, web>>

KickMember(c, ownerId, targetId) ==
    /\ RoomReady(c)
    /\ rooms' = getRoom(c, [NoRoomCall EXCEPT !.op = "kickMember", !.odId = ownerId,
                                             !.target = targetId])
    /\ UNCHANGED <<now, db, srp, refresh, blacklist, nextSid, handshake, issued, rotated,
                   invalid, proc, ret, env, web>>

ResetRoom(c, ownerId) ==
    /\ RoomReady(c)
    /\ rooms' = getRoom(c, [NoRoomCall EXCEPT !.op = "resetRoom", !.odId = ownerId])
    /\ UNCHANGED <<now, db, srp, refresh, blacklist, nextSid, handshake, issued, rotated,
                   invalid, proc, ret, env, web>>

\* getRoomState: redis.hgetall of the members
RoomHgetall(c) ==
    /\ rooms.calls[c].pc = "hgetall"
    /\ rooms' = RoomGoes(rooms, c, [rooms.calls[c] EXCEPT !.pc = "lrange",
                                                         !.state.members = rooms.members])
    /\ UNCHANGED <<now, db, srp, refresh, blacklist, nextSid, handshake, issued, rotated,
                   invalid, proc, ret, env, web>>

\* joinRoom: redis.lrange of getRoomState, then the two checks
JoinLrange(c) ==
    /\ rooms.calls[c].op = "joinRoom" /\ rooms.calls[c].pc = "lrange"
    /\ LET call == rooms.calls[c]
       IN  IF hexists(call.state.members, call.odId)
           THEN rooms' = RoomReturns(rooms, c, call, "state")
           ELSE IF Len(call.state.members) >= call.state.room.maxPlayers
           THEN rooms' = RoomReturns(rooms, c, call, "Error: room is full")
           ELSE rooms' = RoomGoes(rooms, c, [call EXCEPT !.pc = "hset"])
    /\ UNCHANGED <<now, db, srp, refresh, blacklist, nextSid, handshake, issued, rotated,
                   invalid, proc, ret, env, web>>

\* joinRoom: redis.hset of the member
JoinHset(c) ==
    /\ rooms.calls[c].op = "joinRoom" /\ rooms.calls[c].pc = "hset"
    /\ LET call == rooms.calls[c]
           stored == [rooms EXCEPT !.members = hset(@, call.odId)]
           joined == [call EXCEPT !.state.members = Append(@, call.odId)]
       IN  IF Len(call.state.members) + 1 >= call.state.room.maxPlayers
           THEN rooms' = RoomGoes(stored, c, [call EXCEPT !.pc = "set",
                                                          !.state.room.status = "full"])
           ELSE rooms' = RoomReturns(stored, c, joined, "state")
    /\ UNCHANGED <<now, db, srp, refresh, blacklist, nextSid, handshake, issued, rotated,
                   invalid, proc, ret, env, web>>

\* joinRoom: redis.set of the room that is full
JoinSet(c) ==
    /\ rooms.calls[c].op = "joinRoom" /\ rooms.calls[c].pc = "set"
    /\ LET call == rooms.calls[c]
       IN  rooms' = RoomReturns([rooms EXCEPT !.room = call.state.room], c,
                                [call EXCEPT !.state.members = Append(@, call.odId)], "state")
    /\ UNCHANGED <<now, db, srp, refresh, blacklist, nextSid, handshake, issued, rotated,
                   invalid, proc, ret, env, web>>

\* leaveRoom called by kickMember: redis.get of getRoomState
LeaveGet(c) ==
    /\ rooms.calls[c].op = "leaveRoom" /\ rooms.calls[c].pc = "get"
    /\ rooms' = getRoom(c, rooms.calls[c])
    /\ UNCHANGED <<now, db, srp, refresh, blacklist, nextSid, handshake, issued, rotated,
                   invalid, proc, ret, env, web>>

\* leaveRoom: redis.lrange of getRoomState, then the search of the member
LeaveLrange(c) ==
    /\ rooms.calls[c].op = "leaveRoom" /\ rooms.calls[c].pc = "lrange"
    /\ LET call == rooms.calls[c]
       IN  IF ~hexists(call.state.members, call.odId)
           THEN rooms' = RoomReturns(rooms, c, call, "false")
           ELSE rooms' = RoomGoes(rooms, c, [call EXCEPT !.pc = "hdel"])
    /\ UNCHANGED <<now, db, srp, refresh, blacklist, nextSid, handshake, issued, rotated,
                   invalid, proc, ret, env, web>>

\* leaveRoom: redis.hdel of the member
LeaveHdel(c) ==
    /\ rooms.calls[c].op = "leaveRoom" /\ rooms.calls[c].pc = "hdel"
    /\ rooms' = RoomGoes([rooms EXCEPT !.members = hdel(@, rooms.calls[c].odId)], c,
                         [rooms.calls[c] EXCEPT !.pc = "hlen"])
    /\ UNCHANGED <<now, db, srp, refresh, blacklist, nextSid, handshake, issued, rotated,
                   invalid, proc, ret, env, web>>

\* leaveRoom: redis.hlen of the members
LeaveHlen(c) ==
    /\ rooms.calls[c].op = "leaveRoom" /\ rooms.calls[c].pc = "hlen"
    /\ LET call == rooms.calls[c]
       IN  IF Len(rooms.members) = 0
           THEN rooms' = RoomGoes(rooms, c, [call EXCEPT !.pc = "del room"])
           ELSE IF call.state.room.ownerId = call.odId
           THEN rooms' = RoomGoes(rooms, c, [call EXCEPT !.pc = "hgetall owner"])
           ELSE IF call.state.room.status = "full"
           THEN rooms' = RoomGoes(rooms, c, [call EXCEPT !.pc = "set status",
                                                        !.state.room.status = "waiting"])
           ELSE rooms' = RoomReturns(rooms, c, call, "true")
    /\ UNCHANGED <<now, db, srp, refresh, blacklist, nextSid, handshake, issued, rotated,
                   invalid, proc, ret, env, web>>

\* leaveRoom of the owner: redis.hgetall, whose first member is the new
\* owner; JSON.parse throws when no member is left
LeaveTransfer(c) ==
    /\ rooms.calls[c].op = "leaveRoom" /\ rooms.calls[c].pc = "hgetall owner"
    /\ LET call == rooms.calls[c]
       IN  IF rooms.members = <<>>
           THEN rooms' = RoomReturns(rooms, c, call, "SyntaxError")
           ELSE rooms' = RoomGoes(rooms, c, [call EXCEPT !.pc = "set owner",
                                               !.state.room.ownerId = rooms.members[1]])
    /\ UNCHANGED <<now, db, srp, refresh, blacklist, nextSid, handshake, issued, rotated,
                   invalid, proc, ret, env, web>>

\* leaveRoom of the owner: redis.set of the room with its new owner
LeaveSetOwner(c) ==
    /\ rooms.calls[c].op = "leaveRoom" /\ rooms.calls[c].pc = "set owner"
    /\ LET call == rooms.calls[c]
           stored == [rooms EXCEPT !.room = call.state.room]
       IN  IF call.state.room.status = "full"
           THEN rooms' = RoomGoes(stored, c, [call EXCEPT !.pc = "set status",
                                                         !.state.room.status = "waiting"])
           ELSE rooms' = RoomReturns(stored, c, call, "true")
    /\ UNCHANGED <<now, db, srp, refresh, blacklist, nextSid, handshake, issued, rotated,
                   invalid, proc, ret, env, web>>

\* leaveRoom: redis.set of the room that is no longer full
LeaveSetStatus(c) ==
    /\ rooms.calls[c].op = "leaveRoom" /\ rooms.calls[c].pc = "set status"
    /\ rooms' = RoomReturns([rooms EXCEPT !.room = rooms.calls[c].state.room], c,
                            rooms.calls[c], "true")
    /\ UNCHANGED <<now, db, srp, refresh, blacklist, nextSid, handshake, issued, rotated,
                   invalid, proc, ret, env, web>>

\* deleteRoom: redis.del of the room, of the members and of the chat, then
\* redis.srem from the set of all rooms
DeleteRoom(c) ==
    /\ rooms.calls[c].op = "leaveRoom" /\ rooms.calls[c].pc = "del room"
    /\ rooms' = RoomGoes([rooms EXCEPT !.room = NoRoom], c,
                         [rooms.calls[c] EXCEPT !.pc = "del members"])
    /\ UNCHANGED <<now, db, srp, refresh, blacklist, nextSid, handshake, issued, rotated,
                   invalid, proc, ret, env, web>>

DeleteMembers(c) ==
    /\ rooms.calls[c].op = "leaveRoom" /\ rooms.calls[c].pc = "del members"
    /\ rooms' = RoomGoes([rooms EXCEPT !.members = <<>>], c,
                         [rooms.calls[c] EXCEPT !.pc = "del chat"])
    /\ UNCHANGED <<now, db, srp, refresh, blacklist, nextSid, handshake, issued, rotated,
                   invalid, proc, ret, env, web>>

DeleteChat(c) ==
    /\ rooms.calls[c].op = "leaveRoom" /\ rooms.calls[c].pc = "del chat"
    /\ rooms' = RoomGoes([rooms EXCEPT !.chat = <<>>], c, [rooms.calls[c] EXCEPT !.pc = "srem"])
    /\ UNCHANGED <<now, db, srp, refresh, blacklist, nextSid, handshake, issued, rotated,
                   invalid, proc, ret, env, web>>

DeleteSrem(c) ==
    /\ rooms.calls[c].op = "leaveRoom" /\ rooms.calls[c].pc = "srem"
    /\ rooms' = RoomReturns([rooms EXCEPT !.allRooms = {}], c, rooms.calls[c], "true")
    /\ UNCHANGED <<now, db, srp, refresh, blacklist, nextSid, handshake, issued, rotated,
                   invalid, proc, ret, env, web>>

\* kickMember: redis.lrange of getRoomState, the two checks, and the call
\* of leaveRoom for the target
KickLrange(c) ==
    /\ rooms.calls[c].op = "kickMember" /\ rooms.calls[c].pc = "lrange"
    /\ LET call == rooms.calls[c]
       IN  IF call.state.room.ownerId # call.odId
           THEN rooms' = RoomReturns(rooms, c, call, "Error: only the owner can kick")
           ELSE IF call.odId = call.target
           THEN rooms' = RoomReturns(rooms, c, call, "Error: cannot kick oneself")
           ELSE rooms' = RoomGoes(rooms, c,
                            [NoRoomCall EXCEPT !.op = "leaveRoom", !.pc = "get",
                                               !.odId = call.target, !.by = "kickMember"])
    /\ UNCHANGED <<now, db, srp, refresh, blacklist, nextSid, handshake, issued, rotated,
                   invalid, proc, ret, env, web>>

\* resetRoom: redis.lrange of getRoomState, then the check of the owner
ResetLrange(c) ==
    /\ rooms.calls[c].op = "resetRoom" /\ rooms.calls[c].pc = "lrange"
    /\ LET call == rooms.calls[c]
           others == hdel(call.state.members, call.odId)
       IN  IF call.state.room.ownerId # call.odId
           THEN rooms' = RoomReturns(rooms, c, call, "Error: only the owner can reset")
           ELSE IF ~hexists(call.state.members, call.odId)
           THEN rooms' = RoomReturns(rooms, c, call, "null")
           ELSE rooms' = RoomGoes(rooms, c,
                            [call EXCEPT !.todo = others,
                                         !.pc = IF others = <<>> THEN "del chat" ELSE "hdel"])
    /\ UNCHANGED <<now, db, srp, refresh, blacklist, nextSid, handshake, issued, rotated,
                   invalid, proc, ret, env, web>>

\* resetRoom: redis.hdel of the next member that is not the owner
ResetHdel(c) ==
    /\ rooms.calls[c].op = "resetRoom" /\ rooms.calls[c].pc = "hdel"
    /\ LET call == rooms.calls[c]
       IN  rooms' = RoomGoes([rooms EXCEPT !.members = hdel(@, Head(call.todo))], c,
                             [call EXCEPT !.todo = Tail(@),
                                          !.pc = IF Tail(call.todo) = <<>> THEN "del chat"
                                                                         ELSE "hdel"])
    /\ UNCHANGED <<now, db, srp, refresh, blacklist, nextSid, handshake, issued, rotated,
                   invalid, proc, ret, env, web>>

\* resetRoom: redis.del of the chat
ResetDelChat(c) ==
    /\ rooms.calls[c].op = "resetRoom" /\ rooms.calls[c].pc = "del chat"
    /\ rooms' = RoomGoes([rooms EXCEPT !.chat = <<>>], c,
                         [rooms.calls[c] EXCEPT !.pc = "set", !.state.room.status = "waiting"])
    /\ UNCHANGED <<now, db, srp, refresh, blacklist, nextSid, handshake, issued, rotated,
                   invalid, proc, ret, env, web>>

\* resetRoom: redis.set of the room, and the return
ResetSet(c) ==
    /\ rooms.calls[c].op = "resetRoom" /\ rooms.calls[c].pc = "set"
    /\ LET call == rooms.calls[c]
       IN  rooms' = RoomReturns([rooms EXCEPT !.room = call.state.room], c,
                                [call EXCEPT !.state.members = <<call.odId>>], "state")
    /\ UNCHANGED <<now, db, srp, refresh, blacklist, nextSid, handshake, issued, rotated,
                   invalid, proc, ret, env, web>>

\* the calls of the room service, in any interleaving
RoomNext ==
    \/ \E c \in RoomCallers, u \in RoomUsers, m \in GameModes : CreateRoom(c, u, m)
    \/ \E c \in RoomCallers : CreateSet(c)
    \/ \E c \in RoomCallers : CreateHset(c)
    \/ \E c \in RoomCallers : CreateSadd(c)
    \/ \E c \in RoomCallers, u \in RoomUsers : JoinRoom(c, u)
    \/ \E c \in RoomCallers, u \in RoomUsers : LeaveRoom(c, u)
    \/ \E c \in RoomCallers, u \in RoomUsers, t \in RoomUsers : KickMember(c, u, t)
    \/ \E c \in RoomCallers, u \in RoomUsers : ResetRoom(c, u)
    \/ \E c \in RoomCallers : RoomHgetall(c)
    \/ \E c \in RoomCallers : JoinLrange(c)
    \/ \E c \in RoomCallers : JoinHset(c)
    \/ \E c \in RoomCallers : JoinSet(c)
    \/ \E c \in RoomCallers : LeaveGet(c)
    \/ \E c \in RoomCallers : LeaveLrange(c)
    \/ \E c \in RoomCallers : LeaveHdel(c)
    \/ \E c \in RoomCallers : LeaveHlen(c)
    \/ \E c \in RoomCallers : LeaveTransfer(c)
    \/ \E c \in RoomCallers : LeaveSetOwner(c)
    \/ \E c \in RoomCallers : LeaveSetStatus(c)
    \/ \E c \in RoomCallers : DeleteRoom(c)
    \/ \E c \in RoomCallers : DeleteMembers(c)
    \/ \E c \in RoomCallers : DeleteChat(c)
    \/ \E c \in RoomCallers : DeleteSrem(c)
    \/ \E c \in RoomCallers : KickLrange(c)
    \/ \E c \in RoomCallers : ResetLrange(c)
    \/ \E c \in RoomCallers : ResetHdel(c)
    \/ \E c \in RoomCallers : ResetDelChat(c)
    \/ \E c \in RoomCallers : ResetSet(c)

SpecRoom == Init /\ [][RoomNext]_vars

\* the service when createRoom of u1 has returned
InitRoom ==
    /\ now = 0
    /\ db = {aliceRow}
    /\ srp = {}
    /\ refresh = {}
    /\ blacklist = {}
    /\ nextSid = 0
    /\ handshake = [s \in Sids |-> NoHandshake]
    /\ issued = {}
    /\ rotated = {}
    /\ invalid = [u \in UserIds |-> Valid]
    /\ proc = [p \in Procs |-> Idle]
    /\ ret = Idle
    /\ web = WebInit
    /\ env = [JWT_ACCESS_EXPIRES_IN |-> JWT_ACCESS_EXPIRES_IN,
              JWT_REFRESH_EXPIRES_IN |-> JWT_REFRESH_EXPIRES_IN]
    /\ \E m \in GameModes :
          rooms = [RoomInit EXCEPT
                     !.room = [ownerId |-> "u1", gameMode |-> m,
                               maxPlayers |-> maxPlayersOf(m), status |-> "waiting"],
                     !.members = <<"u1">>, !.allRooms = {"code"}, !.made = 1]

\* the calls on a room that exists, in any interleaving
MembersNext ==
    \/ \E c \in RoomCallers, u \in RoomUsers : JoinRoom(c, u)
    \/ \E c \in RoomCallers, u \in RoomUsers : LeaveRoom(c, u)
    \/ \E c \in RoomCallers, u \in RoomUsers, t \in RoomUsers : KickMember(c, u, t)
    \/ \E c \in RoomCallers, u \in RoomUsers : ResetRoom(c, u)
    \/ \E c \in RoomCallers : RoomHgetall(c)
    \/ \E c \in RoomCallers : JoinLrange(c)
    \/ \E c \in RoomCallers : JoinHset(c)
    \/ \E c \in RoomCallers : JoinSet(c)
    \/ \E c \in RoomCallers : LeaveGet(c)
    \/ \E c \in RoomCallers : LeaveLrange(c)
    \/ \E c \in RoomCallers : LeaveHdel(c)
    \/ \E c \in RoomCallers : LeaveHlen(c)
    \/ \E c \in RoomCallers : LeaveTransfer(c)
    \/ \E c \in RoomCallers : LeaveSetOwner(c)
    \/ \E c \in RoomCallers : LeaveSetStatus(c)
    \/ \E c \in RoomCallers : DeleteRoom(c)
    \/ \E c \in RoomCallers : DeleteMembers(c)
    \/ \E c \in RoomCallers : DeleteChat(c)
    \/ \E c \in RoomCallers : DeleteSrem(c)
    \/ \E c \in RoomCallers : KickLrange(c)
    \/ \E c \in RoomCallers : ResetLrange(c)
    \/ \E c \in RoomCallers : ResetHdel(c)
    \/ \E c \in RoomCallers : ResetDelChat(c)
    \/ \E c \in RoomCallers : ResetSet(c)

SpecMembers == InitRoom /\ [][MembersNext]_vars

(***************************************************************************)
(* Properties of the login handshake, under SpecLogin.                     *)
(***************************************************************************)
\* the request carries the A and M1 of a conformant client that knows the
\* password of the user of its session
Honest(rec) ==
    handshake[rec.sid].use # "none" /\ [A |-> rec.A, M1 |-> rec.M1] \in HonestInputs(rec.sid)

\* the request started when the TTL of its session had run out
Expired(rec) ==
    /\ handshake[rec.sid].use # "none"
    /\ rec.at >= handshake[rec.sid].createdAt + SRP_SESSION_TTL

\* the request started within the TTL of its session
Within(rec) ==
    /\ handshake[rec.sid].use # "none"
    /\ rec.at < handshake[rec.sid].createdAt + SRP_SESSION_TTL

\* C1: for every sessionId, however the loginStep2 calls that carry it
\* interleave, at most one of them gets past the lookup of the session.
C1_SingleLookup == \A s \in Sids : handshake[s].passed <= 1

\* C2: a loginStep2 call that starts after a call for the same sessionId has
\* returned never gets past the lookup: it fails with "Session expired or
\* invalid" and issues nothing, whatever A and M1 it carries.
C2_NoReuse ==
    /\ \A p \in Procs : proc[p].op = "loginStep2" => ~proc[p].late
    /\ ret.op = "loginStep2" /\ ret.late
          => ret.res = "Session expired or invalid" /\ ret.out = NoToken

\* a replay with the correct A and M1 has been refused
C2_Witness ==
    /\ ret.op = "loginStep2" /\ ret.late /\ Honest(ret)
    /\ ret.res = "Session expired or invalid"

\* C4: the step of loginStep2 that verifies a proof M1 that does not match
\* ends the call with "Invalid credentials" and no token, and leaves the
\* refresh records and the blacklist as they were.
C4_WrongProof ==
    [][\A p \in Procs :
          (/\ proc[p].op = "loginStep2" /\ proc[p].pc = "del"
           /\ proc'[p] # proc[p]
           /\ proc[p].M1 # srpExpectedM1(proc[p].session.serverStep1State, proc[p].A))
          => /\ proc'[p] = Idle
             /\ ret'.op = "loginStep2" /\ ret'.sid = proc[p].sid
             /\ ret'.res = "Invalid credentials"
             /\ ret'.out = NoToken
             /\ refresh' = refresh /\ blacklist' = blacklist /\ issued' = issued]_vars

\* a login with the wrong password has been refused while a refresh record
\* of the user is stored
C4_Witness ==
    /\ ret.op = "loginStep2" /\ ret.res = "Invalid credentials"
    /\ ret.A % SRPParameters.N # 0
    /\ ret.M1 # srpExpectedM1(ret.session.serverStep1State, ret.A)
    /\ redisExists(refresh, uuid(ret.session.username))

\* C5: a loginStep2 call of a conformant client that starts within the TTL
\* of its session, before any other call found that session, returns the
\* server proof the client verifies and the tokens of the user, and when it
\* returns the stored refresh record of the user is the returned token.
C5_HonestLogin ==
    ret.op = "loginStep2" /\ Within(ret) /\ ret.first /\ Honest(ret)
        => /\ ret.res = "ok"
           /\ \E a \in ClientEphemerals :
                 LET h == handshake[ret.sid]
                 IN  verifyServer(h.username, passwordOf(h.username), h.salt, h.B, a, ret.M2)
           /\ ret.uid = uuid(handshake[ret.sid].username)
           /\ ret.out.type = "refresh" /\ ret.out.sub = ret.uid
           /\ accessTokenOf(ret.out).type = "access"
           /\ redisGet(refresh, ret.uid, NoToken) = ret.out

\* an honest login has succeeded some time after loginStep1
C5_Witness ==
    /\ ret.op = "loginStep2" /\ Within(ret) /\ ret.first /\ Honest(ret)
    /\ ret.res = "ok"
    /\ ret.at > handshake[ret.sid].createdAt

\* C6: a loginStep2 call that starts 300 seconds or more after loginStep1
\* created its session fails with "Session expired or invalid" and issues
\* nothing, and a session in Redis always expires 300 seconds after its
\* creation.
C6_SessionTtl ==
    /\ \A p \in Procs : proc[p].op = "loginStep2" => ~Expired(proc[p])
    /\ ret.op = "loginStep2" /\ Expired(ret)
          => ret.res = "Session expired or invalid" /\ ret.out = NoToken
    /\ \A e \in srp : e.exp = e.val.createdAt + SRP_SESSION_TTL

\* a session that no call had found has been refused to a conformant client
\* after its TTL
C6_Witness ==
    /\ ret.op = "loginStep2" /\ Expired(ret) /\ Honest(ret)
    /\ handshake[ret.sid].passed = 0
    /\ ret.res = "Session expired or invalid"

\* C9: when a successful loginStep2 or refreshTokens replaces the stored
\* refresh token of a user by another one, the replaced token, if it has not
\* expired, is on the blacklist when the call returns.
C9_ReplacedIsBlacklisted ==
    (/\ ret.op \in {"loginStep2", "refreshTokens"} /\ ret.res = "ok"
     /\ ret.old # NoToken /\ ret.old # ret.out
     /\ now < ret.old.exp)
        => redisExists(blacklist, ret.old)

(***************************************************************************)
(* Properties of the refresh tokens, under Spec.                           *)
(***************************************************************************)
\* refreshTokens would accept the token now
Acceptable(t) ==
    /\ checkRefreshToken(t) = "pending"
    /\ ~storedTokenDiffers(redisGet(refresh, t.sub, NoToken), t)

\* C3: a refreshTokens call with a token that a rotation has superseded
\* fails and leaves the user without a stored refresh record.
C3_ReuseRevokesRecord ==
    ret.op = "refreshTokens" /\ ret.late
        => /\ ret.res # "ok" /\ ret.out = NoToken
           /\ ~redisExists(refresh, ret.tok.sub)

\* C7: when logout returns, and no loginStep2 of the user has succeeded
\* since it deleted the record, the user has no stored refresh record; and
\* a refreshTokens call that starts later with a token the user held at the
\* logout fails, until a loginStep2 of the user succeeds.
C7_LogoutRevokes ==
    /\ ret.op = "logout" /\ invalid[ret.uid].out => ~redisExists(refresh, ret.uid)
    /\ ret.op = "refreshTokens" /\ ret.stale => ret.res # "ok"

\* C8: for every user at most one token would be accepted by refreshTokens,
\* and a call goes on to rotation only if its token is the stored record
\* it read.
C8_SingleAcceptable ==
    /\ \A u \in UserIds : Cardinality({t \in HeldTokens : t.sub = u /\ Acceptable(t)}) <= 1
    /\ \A p \in Procs :
          proc[p].op = "refreshTokens" /\ proc[p].pc \in {"store", "blacklist"}
             => proc[p].seen = proc[p].tok
    /\ ret.op = "refreshTokens" /\ ret.res = "ok" => ret.seen = ret.tok

\* a user holds two unexpired refresh tokens, and only one would be accepted
C8_Witness ==
    \E t1 \in issued, t2 \in issued :
       /\ t1 # t2 /\ t1.sub = t2.sub
       /\ jwtVerify(t1) /\ jwtVerify(t2)
       /\ Acceptable(t1) /\ ~Acceptable(t2)

\* C10: a refreshTokens call whose token passed the checks and differs from
\* the stored record fails, issues nothing and leaves no stored record; and
\* a refreshTokens call that starts later fails, until a loginStep2 of the
\* user succeeds.
C10_MismatchRevokes ==
    /\ ret.op = "refreshTokens" /\ ret.uid # "" /\ ret.seen # ret.tok
          => /\ ret.res = "Invalid refresh token" /\ ret.out = NoToken
             /\ ~redisExists(refresh, ret.uid)
    /\ ret.op = "refreshTokens" /\ ret.dead => ret.res # "ok"

\* the call read a stored record equal to its token
Matched(rec) == rec.op = "refreshTokens" /\ rec.uid # "" /\ rec.seen = rec.tok

\* C11 as written: a refreshTokens call whose token passed the checks and
\* equals the stored record returns a new pair, and when it returns the
\* stored record of the subject is the new refresh token and the old one is
\* on the blacklist.
C11_RotationOnReturn ==
    Matched(ret)
        => /\ ret.res = "ok" /\ ret.out.type = "refresh"
           /\ redisGet(refresh, ret.uid, NoToken) = ret.out
           /\ redisExists(blacklist, ret.tok)

\* C11 amended: such a call returns a new pair of the subject and when it
\* returns the old token is on the blacklist; and the step in which it
\* writes the stored record leaves the new refresh token there.
C11_Rotation ==
    /\ [](Matched(ret)
            => /\ ret.res = "ok"
               /\ ret.out.type = "refresh" /\ ret.out.sub = ret.tok.sub
               /\ accessTokenOf(ret.out).type = "access"
               /\ redisExists(blacklist, ret.tok))
    /\ [][\A p \in Procs :
             (/\ proc[p].op = "refreshTokens" /\ proc[p].pc = "store"
              /\ proc'[p] # proc[p])
             => \E e \in refresh' :
                   /\ e.key = proc[p].uid /\ e.val = proc[p].out
                   /\ now < e.exp]_vars

\* a rotation has returned a token other than the one it replaced
C11_Witness ==
    /\ Matched(ret) /\ ret.res = "ok" /\ ret.out # ret.tok
    /\ redisGet(refresh, ret.uid, NoToken) = ret.out

(***************************************************************************)
(* Properties of concurrent refreshes, under SpecRotate.                   *)
(***************************************************************************)
\* the requests in flight, and under 0 the one that has just returned
Call(i) == IF i = 0 THEN ret ELSE proc[i]

\* C12: while two refreshTokens calls with the same token overlap, one of
\* which read a stored record equal to that token, the user has a stored
\* record; and when such a call returns 'ok' the token is on the blacklist.
C12_LastWriterWins ==
    \A i \in Procs \cup {0}, j \in Procs \cup {0} :
       (/\ i # j
        /\ Matched(Call(i))
        /\ Call(j).op = "refreshTokens" /\ Call(j).tok = Call(i).tok)
       => /\ redisExists(refresh, Call(i).uid)
          /\ (i = 0 /\ ret.res = "ok" => redisExists(blacklist, ret.tok))

(***************************************************************************)
(* Properties of the TTLs and of the errors of refreshTokens, under Spec.  *)
(***************************************************************************)
\* C13: every blacklist entry expires when the token it blacklists expires:
\* its TTL is the remaining lifetime of the token.
C13_BlacklistTtl == \A e \in blacklist : e.exp = e.key.exp

C15_OneRejection ==
    (ret.op = "refreshTokens" /\ ret.res # "ok") => ret.res = "Invalid refresh token"

(***************************************************************************)
(* Properties of the handlers over stores that fail, under SpecFault.      *)
(***************************************************************************)
\* C16: a loginStep2 or refreshTokens call during which a store command
\* failed reports an infrastructure error, never 'Invalid credentials' or
\* 'Invalid refresh token'.
C16_FailurePropagates ==
    ret.fault => ret.res \notin {"Invalid credentials", "Invalid refresh token"}

(***************************************************************************)
(* Properties of the two types of token, under SpecValidate.               *)
(***************************************************************************)
\* a token this server signed
Signed(t) == \E r \in issued : t \in {r, accessTokenOf(r)}

\* C17: a token refreshTokens accepts is of type refresh and is accepted
\* neither by validateToken nor by JwtStrategy.validate; a token one of
\* these two accepts is of type access and is not accepted by
\* refreshTokens; and at no time do both sides accept the same token.
C17_NotInterchangeable ==
    /\ (ret.op = "refreshTokens" /\ ret.res = "ok") =>
          /\ ret.tok.type = "refresh"
          /\ validateToken(ret.tok) = NoUser
          /\ jwtStrategyValidate(ret.tok) # "ok"
    /\ (ret.op = "validateToken" /\ ret.res = "identity") =>
          ret.tok.type = "access" /\ checkRefreshToken(ret.tok) # "pending"
    /\ (ret.op = "JwtStrategy.validate" /\ ret.res = "ok") =>
          ret.tok.type = "access" /\ checkRefreshToken(ret.tok) # "pending"
    /\ \A t \in PresentedTokens :
          checkRefreshToken(t) = "pending" =>
             validateToken(t) = NoUser /\ jwtStrategyValidate(t) # "ok"

\* validateToken accepts an access token after refreshTokens has rotated
\* the refresh token of the same user
C17_Witness ==
    /\ ret.op = "validateToken" /\ ret.res = "identity"
    /\ \E t \in rotated : t.sub = ret.tok.sub

\* C18: validateToken returns the identity {id, username} of the token
\* exactly when the token is signed by this server, unexpired and of type
\* access, null in every other case, and nothing else.
C18_ValidateToken ==
    ret.op = "validateToken" =>
       /\ ret.res \in {"identity", "null"}
       /\ ret.res = "identity" <=>
             (Signed(ret.tok) /\ now < ret.tok.exp /\ ret.tok.type = "access")
       /\ ret.res = "identity" => ret.uid = ret.tok.sub /\ ret.username = ret.tok.username
       /\ ret.res = "null" => ret.uid = "" /\ ret.username = ""

\* validateToken returns the identity of alice for her access token
C18_Witness ==
    /\ ret.op = "validateToken" /\ ret.res = "identity"
    /\ ret.uid = uuid("alice") /\ ret.username = "alice"

(***************************************************************************)
(* Properties of register and of the CAPTCHA, under SpecRegister.          *)
(***************************************************************************)
\* C19: a register or loginStep1 call whose CAPTCHA verification returns
\* false fails with 'CAPTCHA verification failed' without having selected
\* from the database and without a change to the database or to Redis,
\* whether or not the username exists.
C19_CaptchaFirst ==
    [][(ret'.op \in {"register", "loginStep1"} /\ ~ret'.turnstileValid) =>
          /\ ret'.res = "CAPTCHA verification failed"
          /\ ~ret'.selected
          /\ UNCHANGED <<db, srp, refresh, blacklist>>]_vars

\* a loginStep1 for a registered username has failed on its CAPTCHA
C19_Witness ==
    /\ ret.op = "loginStep1" /\ ~ret.turnstileValid
    /\ ret.res = "CAPTCHA verification failed"
    /\ selectUser(toLowerCase(ret.username)) # {}

\* C20 as stated: every register call for a username that has a row, in
\* any letter case, fails with 'Username already exists'.
C20_TakenAlways ==
    (ret.op = "register" /\ ret.taken) => ret.res = "Username already exists"

\* C20: a register call that passes the CAPTCHA for a username that has a
\* row, in any letter case, fails with 'Username already exists'; and no
\* step of any operation changes or removes a row of auth_users.
C20_Register ==
    /\ []((ret.op = "register" /\ ret.taken /\ ret.turnstileValid) =>
             ret.res = "Username already exists")
    /\ [][\A r \in db : r \in db']_vars

\* register('Alice') with another verifier has failed on the row of alice,
\* which is as it was
C20_Witness ==
    /\ ret.op = "register" /\ ret.taken /\ ret.turnstileValid
    /\ ret.username = "Alice" /\ ret.M1 # aliceRow.srpVerifier
    /\ ret.res = "Username already exists"
    /\ aliceRow \in db

\* C21: whatever the interleaving of the register calls, auth_users holds
\* at most one row per username, and every username in it is in lower case.
C21_OneRowPerName ==
    /\ \A r1, r2 \in db : r1.username = r2.username => r1 = r2
    /\ \A r \in db : r.username = toLowerCase(r.username)

\* of two racing registrations of bob the second insert has been refused
C21_Witness ==
    /\ ret.op = "register" /\ ret.res = "QueryFailedError" /\ ~ret.taken
    /\ \E r \in db : r.username = toLowerCase(ret.username) /\ r.srpVerifier # ret.M1

\* the row a register request asks for
rowOf(rec) ==
    [id |-> uuid(toLowerCase(rec.username)), username |-> toLowerCase(rec.username),
     srpSalt |-> rec.salt, srpVerifier |-> rec.M1]

\* a step of a register call
RegisterStep ==
    \/ ret'.op = "register"
    \/ \E p \in Procs : proc'[p].op = "register" /\ proc'[p] # proc[p]

\* C22 as stated: every register call that passes the CAPTCHA for a
\* username without a row succeeds and has its row in auth_users.
C22_AlwaysAdds ==
    (ret.op = "register" /\ ret.turnstileValid /\ ~ret.taken) =>
       ret.res = "ok" /\ rowOf(ret) \in db

\* C22: a register call that passes the CAPTCHA for a username without a
\* row either adds exactly the row {lowercased username, given salt, given
\* verifier}, or, when a racing registration of the name has inserted
\* first, fails on the unique constraint and adds nothing; no step of a
\* register call creates a handshake session, a refresh-token record or a
\* blacklist entry, or issues a token.
C22_RegisterAddsOne ==
    [][/\ (ret'.op = "register" /\ ret'.res = "ok") =>
             /\ ret'.turnstileValid /\ ~ret'.taken
             /\ rowOf(ret') \notin db
             /\ db' = db \cup {rowOf(ret')}
       /\ (ret'.op = "register" /\ ret'.turnstileValid /\ ~ret'.taken /\ ret'.res # "ok") =>
             /\ ret'.res = "QueryFailedError"
             /\ db' = db
             /\ \E r \in db : r.username = toLowerCase(ret'.username)
       /\ RegisterStep => UNCHANGED <<srp, refresh, blacklist, issued, nextSid, handshake>>
       /\ (RegisterStep /\ ~(ret'.op = "register" /\ ret'.res = "ok")) => db' = db]_vars

\* register('Bob') has added the row of bob
C22_Witness ==
    /\ ret.op = "register" /\ ret.res = "ok" /\ ret.username = "Bob"
    /\ rowOf(ret) \in db /\ rowOf(ret).username = "bob"
    /\ srp = {} /\ refresh = {} /\ blacklist = {} /\ issued = {}

(***************************************************************************)
(* Properties of loginStep1 and of concurrent handshakes, under SpecLogin. *)
(***************************************************************************)
\* the rows of auth_users a username names, whatever its letter case
RowsNamed(username) == {r \in db : r.username = toLowerCase(username)}

C24_NewSession ==
    [][(ret'.op = "loginStep1" /\ ret'.turnstileValid /\ RowsNamed(ret'.username) # {}) =>
          /\ ret'.res = "ok"
          /\ \A r \in RowsNamed(ret'.username) : ret'.salt = r.srpSalt
          /\ ~\E e \in srp : e.key = ret'.sid
          /\ \E e \in srp' :
                /\ e.key = ret'.sid
                /\ e.val.username = toLowerCase(ret'.username)
                /\ e.exp = now + 300
                /\ srp' = srp \cup {e}
          /\ UNCHANGED <<refresh, blacklist, db>>]_vars

\* the session ids of the loginStep2 calls that take a step
Moved ==
    {proc[p].sid : p \in {q \in Procs : proc[q].op = "loginStep2" /\ proc'[q] # proc[q]}}
       \cup {proc'[p].sid : p \in {q \in Procs : proc[q].op = "none"
                                                    /\ proc'[q].op = "loginStep2"}}
       \cup (IF ret'.op = "loginStep2" THEN {ret'.sid} ELSE {})

\* C25: a step of loginStep2(sessionId) leaves every handshake session of
\* another session id in Redis with its data and its TTL, and leaves
\* auth_users as it was, whatever the call returns.
C25_OtherSessionsKept ==
    [][Moved # {} =>
          /\ \A e \in srp : e.key \notin Moved => e \in srp'
          /\ db' = db]_vars

\* a loginStep2 has failed on a wrong proof while the session of another
\* handshake is live
C25_Witness ==
    /\ ret.op = "loginStep2" /\ ret.res = "Invalid credentials"
    /\ \E e \in srp : e.key # ret.sid /\ now < e.exp

(***************************************************************************)
(* Properties of logout, under SpecLogout.                                 *)
(***************************************************************************)
Keys(store) == {e.key : e \in store}

\* the first step of a logout call for user id u
LogoutFirst(u) ==
    \/ \E p \in Procs : proc[p].op = "none" /\ proc'[p].op = "logout" /\ proc'[p].uid = u
    \/ ret'.op = "logout" /\ ret'.tok = NoToken /\ ret'.uid = u

\* C26: logout returns without an error for every user id and every token,
\* valid or not; its first step removes the record of the user and nothing
\* else, its second puts the token on the blacklist and nothing else; so
\* a call made again with the same arguments leaves the stored records and
\* the membership of the blacklist as they are.
C26_LogoutIdempotent ==
    [][/\ ret'.op = "logout" => ret'.res = "ok"
       /\ \A u \in UserIds : LogoutFirst(u) =>
             /\ Keys(refresh') = Keys(refresh) \ {u}
             /\ \A e \in refresh : e.key # u => e \in refresh'
             /\ blacklist' = blacklist
       /\ \A p \in Procs : (proc[p].op = "logout" /\ proc'[p] # proc[p]) =>
             /\ Keys(blacklist') = Keys(blacklist) \cup {proc[p].tok}
             /\ refresh' = refresh
             /\ ret'.op = "logout" /\ ret'.tok = proc[p].tok
       /\ (ret'.op = "logout" /\ ret'.again /\ ~redisExists(refresh, ret'.uid)) =>
             /\ refresh' = refresh
             /\ Keys(blacklist') = Keys(blacklist)]_vars

\* logout has returned a second time for a user and an expired token
C26_Witness ==
    /\ ret.op = "logout" /\ ret.res = "ok" /\ ret.again
    /\ ret.tok.type = "access" /\ ret.tok.exp <= now
    /\ ~redisExists(refresh, ret.uid)
    /\ redisExists(blacklist, ret.tok)

(***************************************************************************)
(* Properties of loginStep2 on malformed input, under SpecMalformed.       *)
(***************************************************************************)
\* a request whose A is 0 modulo N, or whose A or M1 is not hexadecimal
Malformed(rec) ==
    \/ BigIntThrows(rec.A) \/ BigIntThrows(rec.M1)
    \/ rec.A % SRPParameters.N = 0

\* C27: a loginStep2 call with an A that is 0 modulo N, or with an A or an
\* M1 that is not hexadecimal, on a session it found, fails with 'Invalid
\* credentials' as a wrong proof does, returns no server proof and no
\* token, stores no refresh token, and leaves no session under its id.
C27_MalformedRejected ==
    /\ []((ret.op = "loginStep2" /\ Malformed(ret) /\ ret.session # NoSession) =>
             /\ ret.res = "Invalid credentials"
             /\ ret.M2 = 0 /\ ret.out = NoToken
             /\ ~\E e \in srp : e.key = ret.sid)
    /\ [][(ret'.op = "loginStep2" /\ Malformed(ret')) =>
             refresh' = refresh /\ issued' = issued]_vars

\* loginStep2 has refused an A that is not hexadecimal and consumed the
\* session
C27_Witness ==
    /\ ret.op = "loginStep2" /\ BigIntThrows(ret.A) /\ ret.session # NoSession
    /\ ret.res = "Invalid credentials" /\ ret.first
    /\ ~redisExists(srp, ret.sid)

(***************************************************************************)
(* Properties of the web auth store, under SpecWeb.                        *)
(***************************************************************************)
\* the fetchUser calls that have a request of their own in flight
InFlight ==
    {c \in Callers : web.calls[c].op = "fetchUser" /\ web.calls[c].pc # "shared"}

\* slot c makes a fetchUser call in this step
CallsFetchUser(c) ==
    /\ web.calls[c].op = "none"
    /\ \/ web'.calls[c].op = "fetchUser"
       \/ web'.settled.op = "fetchUser" /\ web'.settled.by = c /\ web'.settled.awaits = 0

\* C28: at most one fetchUser has a request in flight and fetchUserPromise
\* is its promise, null when there is none; a fetchUser called while one is
\* pending gets that promise and calls nothing; a fetchUser called with a
\* token while none is pending calls authApi.me.
C28_SharedRequest ==
    /\ [](/\ Cardinality(InFlight) <= 1
          /\ web.fetchUserPromise = 0 <=> InFlight = {}
          /\ web.fetchUserPromise # 0 => InFlight = {web.fetchUserPromise})
    /\ [][\A c \in Callers : CallsFetchUser(c) =>
             /\ web.fetchUserPromise # 0 =>
                   /\ web'.calls[c].pc = "shared"
                   /\ web'.calls[c].awaits = web.fetchUserPromise
                   /\ web'.fetchUserPromise = web.fetchUserPromise
                   /\ \A d \in Callers \ {c} : web'.calls[d] = web.calls[d]
             /\ (web.fetchUserPromise = 0 /\ getAccessToken # "") =>
                   /\ web'.calls[c].pc = "me"
                   /\ web'.fetchUserPromise = c]_vars

\* two fetchUser calls wait for the promise of a third
C28_Witness ==
    \E c, d \in Callers :
       /\ c # d
       /\ web.calls[c].pc = "shared" /\ web.calls[d].pc = "shared"
       /\ web.calls[c].awaits = web.fetchUserPromise
       /\ web.calls[d].awaits = web.fetchUserPromise
       /\ web.calls[web.fetchUserPromise].pc = "me"

\* the requests a fetchUser call can have made, in order
FetchLogs ==
    {<<>>, <<"fail", "No refresh token">>, <<"fail", "refresh failed">>}
       \cup {<<u>> : u \in WebUsers}
       \cup {<<"fail", "refreshed", r>> : r \in WebUsers \cup {"fail"}}

\* the user the requests of a fetchUser call leave
UserOf(log) ==
    IF Len(log) = 1 THEN log[1]
    ELSE IF Len(log) = 3 /\ log[3] # "fail" THEN log[3]
    ELSE "null"

\* C29 as stated: every fetchUser call made without a stored access token
\* leaves user null when it settles.
C29_NoTokenNoUser ==
    (web.settled.op = "fetchUser" /\ ~web.settled.token) => web.user = "null"

\* C29: no fetchUser call rejects; a call made while no other is pending
\* leaves, when it settles, user null without a request if no access token
\* was stored, and else the user of me(), after one refresh and one more
\* me() when the first me() failed, null when the refresh or the second
\* me() failed; a call made while another is pending makes no request.
C29_FetchUserOutcome ==
    /\ [](web.settled.op = "fetchUser" =>
             /\ web.settled.pc = "resolved"
             /\ web.settled.log \in FetchLogs
             /\ web.settled.awaits = 0 => (~web.settled.token /\ web.settled.log = <<>>)
             /\ web.settled.awaits = web.settled.by =>
                   (web.settled.token /\ web.settled.log # <<>>)
             /\ web.settled.awaits \in {0, web.settled.by} =>
                   web.user = UserOf(web.settled.log)
             /\ web.settled.awaits \notin {0, web.settled.by} => web.settled.log = <<>>)
    /\ [][\A c \in Callers :
             (CallsFetchUser(c) /\ web.fetchUserPromise = 0 /\ getAccessToken = "") =>
                (web'.user = "null" /\ web'.calls[c] = NoCall)]_vars

\* a fetchUser over a user of an earlier login has cleared the user after
\* me(), the refresh and the second me()
C29_Witness ==
    /\ web.settled.op = "fetchUser"
    /\ web.settled.log = <<"fail", "refreshed", "fail">>
    /\ web.user = "null"
    /\ web.auth_token = "access-2"

\* C30: when the POST of authApi.logout has settled, with or without an
\* error, localStorage holds neither token; when store.logout has settled,
\* user is null and loading is false.
C30_LogoutClears ==
    /\ [](web.settled.op = "logout" =>
             web.settled.pc = "resolved" /\ web.user = "null" /\ ~web.loading)
    /\ [][\A c \in Callers :
             (web.calls[c].op = "logout" /\ web.calls[c].pc = "post"
                 /\ web'.calls[c] # web.calls[c]) =>
                (web'.auth_token = "" /\ web'.auth_refresh_token = "")]_vars

\* store.logout has settled after a POST that failed
C30_Witness ==
    /\ web.settled.op = "logout" /\ web.settled.log = <<"failed">>
    /\ web.user = "null" /\ ~web.loading
    /\ web.auth_token = "" /\ web.auth_refresh_token = ""

(***************************************************************************)
(* Properties of the blacklist, under SpecRevoke.                          *)
(***************************************************************************)
\* C31: a refreshTokens call that starts while its token has a blacklist
\* entry fails and issues nothing, whatever logins of the user succeeded
\* since; and a blacklist entry stays, with an expiry that never moves
\* back, until the token it blacklists has expired.
C31_BlacklistedRejected ==
    /\ [](/\ \A p \in Procs : proc[p].op = "refreshTokens" => ~proc[p].revoked
          /\ (ret.op = "refreshTokens" /\ ret.revoked) =>
                ret.res # "ok" /\ ret.out = NoToken)
    /\ [][\A e \in blacklist :
             \/ \E f \in blacklist' : f.key = e.key /\ f.exp >= e.exp
             \/ e.key.exp <= now']_vars

\* refreshTokens has refused a token that logout put on the blacklist,
\* after a second login of the user stored a newer token
C31_Witness ==
    /\ ret.op = "refreshTokens" /\ ret.revoked /\ ret.res = "Token has been revoked"
    /\ ret.tok \notin rotated
    /\ \A s \in 1..MaxSessions : handshake[s].use = "used"
    /\ redisExists(refresh, ret.tok.sub)
    /\ redisGet(refresh, ret.tok.sub, NoToken).iat > ret.tok.iat

(***************************************************************************)
(* Properties of calls made one at a time, under SpecSerial.               *)
(***************************************************************************)
\* C32: when a loginStep2 or refreshTokens call has returned a refresh
\* token, and that token has not expired, a refreshTokens call made next
\* with it would be accepted: the token passes the checks and equals the
\* stored record, in whatever second it was signed.
C32_ReturnedIsAccepted ==
    (/\ ret.op \in {"loginStep2", "refreshTokens"} /\ ret.res = "ok"
     /\ now < ret.out.exp)
        => Acceptable(ret.out)

(***************************************************************************)
(* Properties of two users, under SpecUsers.                               *)
(***************************************************************************)
\* a step of a logout call for user id u
LogoutStep(u) ==
    \/ LogoutFirst(u)
    \/ \E p \in Procs : proc[p].op = "logout" /\ proc[p].uid = u /\ proc'[p] # proc[p]

\* C33: no step of a logout call for a user, whatever token the call
\* carries, takes from another user a token refreshTokens would accept:
\* the stored refresh token of the other user is accepted after the step
\* as it was before.
C33_LogoutOwnUser ==
    [][\A u \in UserIds : LogoutStep(u) =>
          \A t \in issued : (t.sub # u /\ Acceptable(t)) => Acceptable(t)']_vars

(***************************************************************************)
(* Properties of the access tokens, under SpecAccess.                      *)
(***************************************************************************)
\* the access tokens this server has returned
AccessTokens == {accessTokenOf(r) : r \in issued}

\* C34: in every state of the stores, after logout, rotation, blacklisting
\* or the mismatch path, validateToken and JwtStrategy.validate accept an
\* access token this server returned exactly while the clock is before the
\* expiry of the token, and every call answers so.
C34_AccessNotRevoked ==
    /\ \A a \in AccessTokens :
          /\ validateToken(a) # NoUser <=> now < a.exp
          /\ jwtStrategyValidate(a) = "ok" <=> now < a.exp
          /\ now < a.exp => validateToken(a) = [id |-> a.sub, username |-> a.username]
    /\ (ret.op = "validateToken" /\ ret.tok \in AccessTokens) =>
          (ret.res = "identity" <=> now < ret.tok.exp)
    /\ (ret.op = "JwtStrategy.validate" /\ ret.tok \in AccessTokens) =>
          (ret.res = "ok" <=> now < ret.tok.exp)

\* validateToken has accepted an access token after a logout of its user
\* deleted the record and blacklisted the refresh token signed with it
C34_Witness ==
    /\ ret.op = "validateToken" /\ ret.res = "identity"
    /\ invalid[ret.tok.sub].out
    /\ ~redisExists(refresh, ret.tok.sub)
    /\ \E r \in issued : accessTokenOf(r) = ret.tok /\ redisExists(blacklist, r)

(***************************************************************************)
(* Properties of the handshakes of two users, under SpecHandshakes.        *)
(***************************************************************************)
\* the request holds tokens of the row loginStep1 looked up for its
\* session, and the verifier its proof was checked against is of that row
TokensOfSession(rec) ==
    \E r \in db :
       /\ r.username = handshake[rec.sid].username
       /\ rec.uid = r.id
       /\ rec.out.sub = r.id /\ rec.out.username = r.username
       /\ accessTokenOf(rec.out).sub = r.id /\ accessTokenOf(rec.out).username = r.username
       /\ rec.session.serverStep1State.v = r.srpVerifier
       /\ rec.M1 = srpExpectedM1(rec.session.serverStep1State, rec.A)

\* C35: the tokens a loginStep2 call signs and returns carry the id and
\* the username of the row loginStep1 looked up for its session id, and
\* the proof of the call was verified against the verifier of that row,
\* whatever A and M1 the call carries and whatever handshakes run beside.
C35_TokensOfSessionUser ==
    /\ \A p \in Procs :
          (proc[p].op = "loginStep2" /\ proc[p].pc = "store") => TokensOfSession(proc[p])
    /\ (ret.op = "loginStep2" /\ ret.res = "ok") => TokensOfSession(ret)
    /\ (ret.op = "loginStep2" /\ ret.res # "ok") => ret.out = NoToken

\* a login of bob has succeeded while a loginStep2 of alice is in flight
C35_Witness ==
    /\ ret.op = "loginStep2" /\ ret.res = "ok" /\ ret.out.username = "bob"
    /\ \E p \in Procs :
          /\ proc[p].op = "loginStep2" /\ proc[p].session.username = "alice"
          /\ proc[p].sid # ret.sid

(***************************************************************************)
(* Properties of the lifetimes, under SpecDuration.                        *)
(***************************************************************************)
\* the number a string of decimal digits denotes
RECURSIVE DecimalValue(_)
DecimalValue(ds) ==
    IF ds = <<>> THEN 0
    ELSE (CHOOSE n \in 0..9 : ToString(n) = Head(ds)) * (10 ^ (Len(ds) - 1))
            + DecimalValue(Tail(ds))

\* the seconds the statement gives a setting: digits times the seconds of
\* the unit for <decimal digits><unit>, seven days for every other string
StatedSeconds(str) ==
    IF /\ Len(str) > 1
       /\ \A i \in 1..(Len(str) - 1) : \E k \in 0..9 : ToString(k) = str[i]
       /\ str[Len(str)] \in {"s", "m", "h", "d"}
    THEN DecimalValue(SubSeq(str, 1, Len(str) - 1))
            * (CASE str[Len(str)] = "s" -> 1 [] str[Len(str)] = "m" -> 60
                 [] str[Len(str)] = "h" -> 3600 [] str[Len(str)] = "d" -> 86400)
    ELSE 604800

\* C36: durationToSeconds gives digits x 1, 60, 3600 or 86400 for a
\* setting <decimal digits><unit> with unit s, m, h or d and 604800 for
\* every other string, for the access lifetime as for the refresh
\* lifetime, and the tokens a login returns are signed with these.
C36_DurationToSeconds ==
    /\ durationToSeconds(env.JWT_ACCESS_EXPIRES_IN) = StatedSeconds(env.JWT_ACCESS_EXPIRES_IN)
    /\ durationToSeconds(env.JWT_REFRESH_EXPIRES_IN) = StatedSeconds(env.JWT_REFRESH_EXPIRES_IN)
    /\ accessTokenExpiry = StatedSeconds(env.JWT_ACCESS_EXPIRES_IN)
    /\ refreshTokenExpiry = StatedSeconds(env.JWT_REFRESH_EXPIRES_IN)
    /\ (ret.op = "loginStep2" /\ ret.res = "ok") =>
          /\ ret.out.exp - ret.out.iat = StatedSeconds(env.JWT_REFRESH_EXPIRES_IN)
          /\ accessTokenOf(ret.out).exp - accessTokenOf(ret.out).iat
                = StatedSeconds(env.JWT_ACCESS_EXPIRES_IN)

\* a login has returned an access token of seven days under an access
\* lifetime with a unit the pattern does not know
C36_Witness ==
    /\ ret.op = "loginStep2" /\ ret.res = "ok"
    /\ env.JWT_ACCESS_EXPIRES_IN = <<"1", "9", "M">>
    /\ accessTokenOf(ret.out).exp - accessTokenOf(ret.out).iat = 604800

(***************************************************************************)
(* Properties of the rooms, under SpecRoom.                                *)
(***************************************************************************)
\* C37: the room never has more members stored than its maxPlayers,
\* however the calls of the room service interleave.
C37_AtMostMaxPlayers ==
    rooms.room # NoRoom => Len(rooms.members) <= rooms.room.maxPlayers

\* no call of the room service is in flight
NoRoomCalls == \A c \in RoomCallers : rooms.calls[c].op = "none"

\* C38: when the calls of the room service have returned, a room that
\* exists has at least one member and its ownerId is one of its members,
\* and a room that does not exist has no member list, no chat and no entry
\* in the set of all rooms.
C38_OwnerIsMember ==
    NoRoomCalls =>
       /\ rooms.room # NoRoom =>
             /\ rooms.members # <<>>
             /\ hexists(rooms.members, rooms.room.ownerId)
       /\ rooms.room = NoRoom =>
             rooms.members = <<>> /\ rooms.chat = <<>> /\ rooms.allRooms = {}

====
